---------------------------- MODULE Spec2Model ----------------------------
(***************************************************************************)
(* Retrieval-and-routing pipeline of the AskLegal assistant.               *)
(*                                                                         *)
(*   SpecRoute   : ModelRouter.route_query as a pure decision function     *)
(*                 over query features (model_router.py).                  *)
(*   Spec        : ModelRouter.generate_response and the chat endpoint's   *)
(*                 generate_legal_response: the fallback chain executed    *)
(*                 call by call (model_router.py, gemini_engine.py,        *)
(*                 chat.py).                                               *)
(*   SpecService : LegalService.handle_query over                          *)
(*                 PrivacyAwareModelManager (legal_service.py,             *)
(*                 model_manager.py).                                      *)
(*                                                                         *)
(* Text is abstracted to the features the code reads from it: lengths,     *)
(* keyword-match counts, pattern matches.  Scores are the code's floats    *)
(* scaled to integers: complexity * 3000, relevance * 30.  On the input    *)
(* grid used here (lengths in steps of 50, context lengths in steps of     *)
(* 100) the scaled integer comparisons agree with the float comparisons of *)
(* the source.                                                             *)
(***************************************************************************)
EXTENDS Integers, Sequences, FiniteSets, TLC

VARIABLES
    geminiAvailable,  \* gemini_engine.is_initialized
    rq,               \* SpecRoute: the inputs of one route_query call
    routed,           \* SpecRoute: what route_query returned, or NotRouted
    pc,               \* Spec: position of the request in generate_response
    caller,           \* Spec: "direct" (generate_response called) or "chat"
    call,             \* Spec: what the running request carries
    modelType,        \* Spec: the ModelType generate_response dispatches on
    cur,              \* Spec: the backend about to be, or being, invoked
    inflight,         \* Spec: backends whose call has not returned yet
    history,          \* Spec: the generators run so far, with their outcome
    response,         \* Spec: the text returned to the caller, as its kind
    source,           \* Spec: the chat endpoint's source tag
    models,           \* SpecService: the models PrivacyAwareModelManager loaded
    redisConnected,   \* SpecService: UpstashRedisManager.client is not None
    cache,            \* SpecService: the cache:query:<hash> entries
    svc_pc,           \* SpecService: position of the request in the service
    svc_op,           \* SpecService: the LegalService method that is running
    svc_query,        \* SpecService: the query being handled
    svc_model,        \* SpecService: the model generate is calling
    svc_inflight,     \* SpecService: models whose call has not returned yet
    svc_invoked,      \* SpecService: the models called so far, with outcome
    svc_result,       \* SpecService: what handle_query returned
    svc_req,          \* SpecService: session, arrival time, lookup, retrieval
    svc_log,          \* SpecService: the handle_query requests finished so far
    now,              \* seconds gone by on the Redis server's clock
    redis_ops,        \* SpecRedis: the cache calls made so far, in order
    text,             \* SpecPrivacy: the text given to the privacy layer
    classified,       \* SpecPrivacy: what classify_query_sensitivity returned
    passes,           \* SpecPrivacy: the text after each anonymize_text pass
    rerank_in,        \* SpecRerank: the three candidate lists and the limit
    rerank_via,       \* SpecRerank: how _combine_and_rerank was reached
    combined_results, \* SpecRerank: what _combine_and_rerank returned
    chat_storage,     \* Spec: chat_storage[chat_id]["messages"] of the one chat
    chat_msg,         \* Spec: the chat message, and the text handed onwards
    workflows,        \* SpecWorkflow: WorkflowAutomationEngine.workflows
    wf_call,          \* SpecWorkflow: the last call made on the engine
    workers,          \* SpecConcurrent: the handle_query calls under way
    retrieving        \* SpecRetrieve: the retrieve call and its source calls

routeVars == <<rq, routed>>
execVars == <<pc, caller, call, modelType, cur, inflight, history, response, source>>
svcVars == <<models, redisConnected, cache, now, redis_ops, svc_pc, svc_op, svc_query,
             svc_model, svc_inflight, svc_invoked, svc_result, svc_req, svc_log>>
privacyVars == <<text, classified, passes>>
rerankVars == <<rerank_in, rerank_via, combined_results>>
chatVars == <<chat_storage, chat_msg>>
engineVars == <<workflows, wf_call, workers, retrieving>>
otherVars == <<privacyVars, rerankVars, chatVars, engineVars>>
vars == <<geminiAvailable, otherVars, rq, routed, pc, caller, call, modelType, cur,
          inflight, history, response, source,
          models, redisConnected, cache, now, redis_ops, svc_pc, svc_op, svc_query, svc_model,
          svc_inflight, svc_invoked, svc_result, svc_req, svc_log>>

(***************************************************************************)
(* Bounds of the model.                                                    *)
(***************************************************************************)
MaxLenSteps == 2      \* query lengths 0, 50, ..., 50 * MaxLenSteps characters
MaxCtxSteps == 2      \* context lengths 0, 100, ..., 100 * MaxCtxSteps characters
MaxMatches == 4       \* keyword matches counted per keyword list

Min(a, b) == IF a < b THEN a ELSE b

(***************************************************************************)
(* model_router.py: ModelType                                              *)
(***************************************************************************)
SLM == "slm"
LLM == "llm"
CALC == "calc"
ModelType == {SLM, LLM, CALC}

ProfileFields == {"industry", "business_size", "legal_structure"}

(***************************************************************************)
(* The arguments of route_query(query, context, user_id), as the features  *)
(* the router reads from them.                                             *)
(*   has_calc_keyword   : some calc_keywords entry occurs in query.lower() *)
(*   has_numbers        : re.search(r'\d+', query)                         *)
(*   qlen               : len(query)                                       *)
(*   complexity_matches : complexity_keywords occurring in the query       *)
(*   legal_matches      : legal_domain_keywords occurring in the query     *)
(*   msme_matches       : msme_keywords occurring in the query             *)
(*   ctxlen             : len(context)                                     *)
(*   user               : "none" (user_id empty), "noprofile" (no stored   *)
(*                        business context), "profile"                     *)
(*   profile_hits       : the profile fields whose value occurs in query   *)
(***************************************************************************)
RouteInputs ==
    { r \in [ has_calc_keyword : BOOLEAN,
              has_numbers : BOOLEAN,
              qlen : { 50 * k : k \in 0..MaxLenSteps },
              complexity_matches : 0..MaxMatches,
              legal_matches : 0..MaxMatches,
              msme_matches : 0..MaxMatches,
              ctxlen : { 100 * k : k \in 0..MaxCtxSteps },
              user : {"none", "noprofile", "profile"},
              profile_hits : SUBSET ProfileFields ] :
        /\ (r.user # "profile" => r.profile_hits = {})
        /\ (r.qlen = 0 =>
              /\ ~r.has_calc_keyword /\ ~r.has_numbers
              /\ r.complexity_matches = 0 /\ r.legal_matches = 0
              /\ r.msme_matches = 0 /\ r.profile_hits = {}) }

(***************************************************************************)
(* calculation_engine.py: CalculationEngine.detect_calculation_query.      *)
(* Returns False only when the query has neither a calc keyword nor a      *)
(* digit; every other query is reported as a calculation query.            *)
(***************************************************************************)
detect_calculation_query(has_calc_keyword, has_numbers) ==
    IF ~(has_calc_keyword \/ has_numbers) THEN FALSE ELSE TRUE

(***************************************************************************)
(* model_router.py: ModelRouter._calculate_complexity, scaled by 3000.     *)
(***************************************************************************)
calculate_complexity(r) ==
    LET length_part == 9 * Min(r.qlen, 100)
        complexity_part == 300 * Min(r.complexity_matches, 3)
        legal_part == 200 * Min(r.legal_matches, 3)
        context_part == IF r.ctxlen > 0 THEN 3 * Min(r.ctxlen, 200) ELSE 0
    IN  Min(length_part + complexity_part + legal_part + context_part, 3000)

\* a variant of calculate_msme_relevance that weighs the keywords with 0.8
calculate_msme_relevance_keywords_08(r) ==
    LET msme_part == 8 * Min(r.msme_matches, 3)
        bonus(f, w) == IF r.user = "profile" /\ f \in r.profile_hits THEN w ELSE 0
    IN  Min(msme_part + bonus("industry", 6) + bonus("business_size", 3)
                      + bonus("legal_structure", 3), 30)

(***************************************************************************)
(* model_router.py: ModelRouter._calculate_msme_relevance, scaled by 30.   *)
(***************************************************************************)
calculate_msme_relevance(r) ==
    LET msme_part == 6 * Min(r.msme_matches, 3)
        bonus(f, w) == IF r.user = "profile" /\ f \in r.profile_hits THEN w ELSE 0
    IN  Min(msme_part + bonus("industry", 6) + bonus("business_size", 3)
                      + bonus("legal_structure", 3), 30)

(***************************************************************************)
(* Variants of route_query with one decision changed; the routing          *)
(* properties below are each checked to tell one of them from the code.    *)
(***************************************************************************)
route_query_variant(r, gemini, calc_with_gemini, calc_without_gemini,
                    high_threshold, simple_with_gemini) ==
    IF detect_calculation_query(r.has_calc_keyword, r.has_numbers)
    THEN IF gemini THEN calc_with_gemini ELSE calc_without_gemini
    ELSE LET complexity_score == calculate_complexity(r)
             msme_relevance == calculate_msme_relevance(r)
         IN  IF msme_relevance > 21 /\ complexity_score < 1500 THEN SLM
             ELSE IF complexity_score > high_threshold
                  THEN IF gemini THEN LLM ELSE SLM
             ELSE IF complexity_score > 1200
                  THEN IF msme_relevance > 15 THEN SLM
                       ELSE IF gemini THEN LLM ELSE SLM
             ELSE IF gemini THEN simple_with_gemini ELSE SLM

\* calculations always go to the calculation engine
route_query_calc_engine_first(r, gemini) ==
    route_query_variant(r, gemini, CALC, CALC, 2100, SLM)

\* calculations go to the local engine when Gemini is unavailable
route_query_calc_to_slm(r, gemini) ==
    route_query_variant(r, gemini, LLM, SLM, 2100, SLM)

\* the high-complexity threshold is 0.8 instead of 0.7
route_query_threshold_08(r, gemini) ==
    route_query_variant(r, gemini, LLM, CALC, 2400, SLM)

\* simple queries go to Gemini when it is available
route_query_simple_to_gemini(r, gemini) ==
    route_query_variant(r, gemini, LLM, CALC, 2100, LLM)

(***************************************************************************)
(* model_router.py: ModelRouter.route_query.                               *)
(***************************************************************************)
route_query(r, gemini) ==
    IF detect_calculation_query(r.has_calc_keyword, r.has_numbers)
    THEN IF gemini THEN LLM ELSE CALC
    ELSE LET complexity_score == calculate_complexity(r)
             msme_relevance == calculate_msme_relevance(r)
         IN  IF msme_relevance > 21 /\ complexity_score < 1500 THEN SLM
             ELSE IF complexity_score > 2100
                  THEN IF gemini THEN LLM ELSE SLM
             ELSE IF complexity_score > 1200
                  THEN IF msme_relevance > 15 THEN SLM
                       ELSE IF gemini THEN LLM ELSE SLM
             ELSE SLM

(***************************************************************************)
(* SpecRoute: one route_query call on drawn inputs.                        *)
(***************************************************************************)
NotRouted == [model |-> "none", is_calculation |-> FALSE]
NoCall == [is_calculation |-> FALSE, has_context |-> FALSE,
           context_usable |-> FALSE, preferred |-> FALSE, sensitivity |-> "none"]
NoResponse == [from |-> "none", kind |-> "none"]

ExecIdle ==
    /\ pc = "idle"
    /\ caller = "none"
    /\ call = NoCall
    /\ modelType = "none"
    /\ cur = "none"
    /\ inflight = {}
    /\ history = <<>>
    /\ response = NoResponse
    /\ source = "none"

NoResult == [kind |-> "none", answer |-> "none", cached |-> FALSE]

NoQuery == [high_keyword |-> FALSE, medium_keyword |-> FALSE, long |-> FALSE,
            form |-> "none"]

\* no request in progress: session_id, the time the request came in, whether
\* the cache lookup went through, whether retriever.retrieve was called
NoReq == [session |-> "none", start |-> 0, lookup_ok |-> FALSE, retrieved |-> FALSE]

ServiceIdle ==
    /\ svc_pc = "idle"
    /\ svc_op = "none"
    /\ svc_query = NoQuery
    /\ svc_model = "none"
    /\ svc_inflight = {}
    /\ svc_invoked = <<>>
    /\ svc_result = NoResult
    /\ svc_req = NoReq
    /\ svc_log = <<>>

PrivacyIdle ==
    /\ text = <<>>
    /\ classified = "none"
    /\ passes = <<>>

NoRerank == [faiss_results |-> <<>>, bm25_results |-> <<>>,
             metadata_results |-> <<>>, limit |-> 0]

RerankIdle ==
    /\ rerank_in = NoRerank
    /\ rerank_via = "none"
    /\ combined_results = <<>>

\* no chat message: whether the message is the empty text, and which text
\* (the raw message or the anonymized one) the retriever and the router got
NoChatMsg == [empty |-> FALSE, retriever_given |-> "none", router_given |-> "none"]

ChatIdle ==
    /\ chat_storage = <<>>
    /\ chat_msg = NoChatMsg

NoProgress == [found |-> FALSE, total_steps |-> 0, completed_steps |-> 0,
               progress_percentage |-> 0, current_step |-> 0]

\* no retrieve call: where the call stands, its limit and filters, the
\* documents that match all the filters, what each source handed back, the
\* sources that raised, the sources whose call ran past any time allowed
\* for it, and what retrieve returned
NoRetrieve == [pc |-> "idle", limit |-> 0, filters |-> FALSE, matched |-> {},
               faiss_results |-> <<>>, bm25_results |-> <<>>,
               metadata_results |-> <<>>, raised |-> {}, overdue |-> {},
               combined_results |-> <<>>]

NoWfCall == [op |-> "none", workflow_id |-> "none", step_index |-> 0,
             returned |-> "none", progress |-> NoProgress, before |-> <<>>]

EngineIdle ==
    /\ workflows = <<>>
    /\ wf_call = NoWfCall
    /\ workers = <<>>
    /\ retrieving = NoRetrieve

OtherIdle == PrivacyIdle /\ RerankIdle /\ ChatIdle /\ EngineIdle

ServiceOff ==
    /\ models = {}
    /\ redisConnected = FALSE
    /\ cache = <<>>
    /\ now = 0
    /\ redis_ops = <<>>
    /\ ServiceIdle

InitRoute ==
    /\ OtherIdle
    /\ geminiAvailable \in BOOLEAN
    /\ rq \in RouteInputs
    /\ routed = NotRouted
    /\ ExecIdle
    /\ ServiceOff

RouteQuery ==
    /\ routed = NotRouted
    /\ routed' = [model |-> route_query(rq, geminiAvailable),
                  is_calculation |->
                      detect_calculation_query(rq.has_calc_keyword, rq.has_numbers)]
    /\ UNCHANGED <<geminiAvailable, otherVars, rq, execVars, svcVars>>

NextRoute == RouteQuery

SpecRoute == InitRoute /\ [][NextRoute]_vars


(***************************************************************************)
(* The kinds of text a generator hands back.                               *)
(*   "ok"      non-empty text without the marker "Error:"                  *)
(*   "empty"   None or ""                                                  *)
(*   "blank"   whitespace only                                             *)
(*   "errmark" text that contains "Error:"                                 *)
(*   "errtext" text that reports an error without the marker, such as      *)
(*             "Error generating response: ..."                            *)
(*   "nodata"  the calculation engine's "couldn't extract specific         *)
(*             numbers" message                                            *)
(*   "calcerr" the calculation engine's "I encountered an error            *)
(*             performing the calculation" message                         *)
(*   "raise"   an exception instead of a text                              *)
(***************************************************************************)
FailureKinds == {"empty", "blank", "errmark", "errtext", "calcerr", "raise"}

(***************************************************************************)
(* What the Gemini API call does inside GeminiEngine.generate: it returns  *)
(* a text, a whitespace text, an empty text, a text with "Error:" in it,   *)
(* or raises (network error, timeout, quota).                              *)
(***************************************************************************)
GeminiApiOutcomes == {"text", "blank_text", "empty_text", "marker_text", "exception"}

(***************************************************************************)
(* gemini_engine.py: GeminiEngine.generate (generate_with_calculation_focus*)
(* ends in the same call).  Raises when the engine is not initialised;     *)
(* otherwise every API failure comes back as a text.                       *)
(***************************************************************************)
gemini_generate(initialized, api) ==
    IF ~initialized THEN "raise"
    ELSE CASE api = "text" -> "ok"
           [] api = "blank_text" -> "blank"
           [] api = "marker_text" -> "errmark"
           [] api = "empty_text" -> "errmark"    \* "Error: Empty response from Gemini"
           [] api = "exception" -> "errtext"     \* "Error generating response: ..."

(***************************************************************************)
(* engine.py: inference_engine.generate as the router sees it: the router  *)
(* handles a text, no text, a text with "Error:" and an exception.         *)
(***************************************************************************)
SlmOutcomes == {"ok", "empty", "blank", "errmark", "raise"}

(***************************************************************************)
(* model_router.py: _generate_with_calculation_engine returns one of three *)
(* texts and never raises.                                                 *)
(***************************************************************************)
CalcOutcomes == {"ok", "nodata", "calcerr"}

(***************************************************************************)
(* model_router.py:383 and :411, chat.py:96: the test                      *)
(*   not response or "Error:" in response or response.strip() == ""        *)
(***************************************************************************)
response_rejected(kind) == kind \in {"empty", "blank", "errmark", "raise"}

(***************************************************************************)
(* model_router.py:197-202: the engine generate_response dispatches to.    *)
(***************************************************************************)
dispatch(model_type) ==
    CASE model_type = CALC -> "calc"
      [] model_type = LLM -> "gemini"
      [] OTHER -> "slm"

\* a variant of FallbackChain without the rule-based generator at the end
FallbackChain_no_rule_based(model_type) ==
    CASE model_type = CALC -> <<"calc">>
      [] model_type = LLM -> <<"gemini", "slm">>
      [] OTHER -> <<"slm">>

(***************************************************************************)
(* The generators a request of each ModelType can run, in the order the    *)
(* code reaches them: _generate_with_gemini falls to _generate_with_slm    *)
(* (:286-288), which falls to _get_contextual_fallback (:383-388); the     *)
(* calculation engine has nothing behind it (:204-232).                    *)
(***************************************************************************)
FallbackChain(model_type) ==
    CASE model_type = CALC -> <<"calc">>
      [] model_type = LLM -> <<"gemini", "slm", "fallback">>
      [] OTHER -> <<"slm", "fallback">>

(***************************************************************************)
(* hybrid_retriever.py:17 against chat.py:66: retrieve(query, limit,       *)
(* filters) is called as retrieve(processed_message, top_k=5); a keyword   *)
(* the signature does not have raises TypeError.                           *)
(***************************************************************************)
RetrieveParameters == {"query", "limit", "filters"}
retrieve_accepts(keyword) == keyword \in RetrieveParameters

(***************************************************************************)
(* privacy_layer.py: PrivacyLayer.classify_query_sensitivity over the two  *)
(* pattern groups.                                                         *)
(***************************************************************************)
classify_query_sensitivity(highly_sensitive_match, sensitive_match) ==
    IF highly_sensitive_match THEN "HIGHLY_SENSITIVE"
    ELSE IF sensitive_match THEN "SENSITIVE"
    ELSE "PUBLIC"

(***************************************************************************)
(* chat.py:170-183: chat_message appends the user's message and the        *)
(* assistant's answer, with its source tag, to the history of the chat.    *)
(***************************************************************************)
store_exchange(messages, source_tag) ==
    messages \o <<[role |-> "user", source |-> "none"],
                  [role |-> "assistant", source |-> source_tag]>>

\* a variant of processed_message that hands the message on as it came
processed_message_raw(sensitivity) == "raw"

(***************************************************************************)
(* chat.py:58-63: the text generate_legal_response goes on with: the       *)
(* anonymized text for a SENSITIVE or HIGHLY_SENSITIVE query, else the     *)
(* message as it came.                                                     *)
(***************************************************************************)
processed_message(sensitivity) ==
    IF sensitivity \in {"SENSITIVE", "HIGHLY_SENSITIVE"} THEN "anonymized"
    ELSE "raw"

(***************************************************************************)
(* Where a text handed back by the router goes: generate_response returns  *)
(* it to a direct caller; generate_legal_response (chat.py:93-99) replaces *)
(* a rejected text by _get_fallback_response and tags it FALLBACK.         *)
(***************************************************************************)
Deliver(from, kind) ==
    /\ pc' = "done"
    /\ cur' = "none"
    /\ IF caller = "chat" /\ response_rejected(kind)
       THEN /\ response' = [from |-> "_get_fallback_response", kind |-> "ok"]
            /\ source' = "FALLBACK"
       ELSE /\ response' = [from |-> from, kind |-> kind]
            /\ source' = source
    /\ chat_storage' = IF caller = "chat"
                       THEN store_exchange(chat_storage, source')
                       ELSE chat_storage
    /\ UNCHANGED chat_msg

(***************************************************************************)
(* model_router.py: ModelRouter.generate_response up to the dispatch, for  *)
(* a direct caller (the test scripts, JudgmentPredictor).                  *)
(***************************************************************************)
generate_response ==
    /\ pc = "idle"
    /\ \E r \in RouteInputs, pref \in ModelType \cup {"none"}, ils \in BOOLEAN :
          /\ modelType' = IF pref # "none" THEN pref
                          ELSE route_query(r, geminiAvailable)
          /\ call' = [is_calculation |->
                          detect_calculation_query(r.has_calc_keyword, r.has_numbers),
                      has_context |-> r.ctxlen > 0,
                      context_usable |-> r.ctxlen > 0 /\ ~ils,
                      preferred |-> pref # "none",
                      sensitivity |-> "none"]
    /\ caller' = "direct"
    /\ cur' = dispatch(modelType')
    /\ pc' = "call"
    /\ UNCHANGED <<geminiAvailable, otherVars, routeVars, svcVars, inflight, history, response, source>>

(***************************************************************************)
(* chat.py: chat_message (:160-189) takes any message text, the empty one  *)
(* included, and calls generate_legal_response.  Lines 55-63 classify and  *)
(* anonymise; line 66 calls the retriever; a raise anywhere lands in the   *)
(* except branch (:101-105), which answers with _get_fallback_response;    *)
(* chat_message then stores the exchange (:170-183).                       *)
(***************************************************************************)
generate_legal_response ==
    /\ pc = "idle"
    /\ \E r \in RouteInputs, hs \in BOOLEAN, s \in BOOLEAN,
          found \in BOOLEAN, ils \in BOOLEAN, empty \in BOOLEAN :
          LET sensitivity == classify_query_sensitivity(hs, s)
              context_len == IF found THEN 100 * MaxCtxSteps ELSE 0
              rr == [r EXCEPT !.ctxlen = context_len, !.user = "none",
                              !.profile_hits = {}]
          IN  /\ empty => (~hs /\ ~s)
              /\ IF retrieve_accepts("top_k")
                 THEN /\ modelType' = route_query(rr, geminiAvailable)
                      /\ call' = [is_calculation |->
                                      detect_calculation_query(r.has_calc_keyword,
                                                               r.has_numbers),
                                  has_context |-> found,
                                  context_usable |-> found /\ ~ils,
                                  preferred |-> FALSE,
                                  sensitivity |-> sensitivity]
                      /\ source' = IF found THEN "RAG" ELSE "GEN"
                      /\ cur' = dispatch(modelType')
                      /\ pc' = "call"
                      /\ response' = response
                      /\ chat_msg' = [empty |-> empty,
                             retriever_given |-> processed_message(sensitivity),
                             router_given |-> processed_message(sensitivity)]
                      /\ UNCHANGED chat_storage
                 ELSE /\ modelType' = "none"
                      /\ call' = [NoCall EXCEPT !.sensitivity = sensitivity]
                      /\ source' = "FALLBACK"
                      /\ cur' = "none"
                      /\ pc' = "done"
                      /\ response' = [from |-> "_get_fallback_response", kind |-> "ok"]
                      /\ chat_msg' = [empty |-> empty,
                             retriever_given |-> processed_message(sensitivity),
                             router_given |-> "none"]
                      /\ chat_storage' = store_exchange(chat_storage, "FALLBACK")
    /\ caller' = "chat"
    /\ UNCHANGED <<geminiAvailable, privacyVars, rerankVars, engineVars, routeVars, svcVars, inflight,
                   history>>

(***************************************************************************)
(* The call of the current backend starts: calculation_engine (:217-226),  *)
(* gemini_engine.generate (:258, :283), inference_engine.generate (:381,   *)
(* :410).                                                                  *)
(***************************************************************************)
backend_call ==
    /\ pc = "call"
    /\ inflight' = inflight \cup {cur}
    /\ pc' = "wait"
    /\ UNCHANGED <<geminiAvailable, otherVars, routeVars, svcVars, caller, call, modelType, cur,
                   history, response, source>>

\* a variant of advances that moves on whatever the backend handed back
advances_always(backend, kind) == TRUE

(***************************************************************************)
(* Whether the router moves on after a backend handed back `kind`:         *)
(* never after the calculation engine (model_router.py:215-232), only on   *)
(* an exception after Gemini (:246-288), on a rejected text or an          *)
(* exception after the local engine (:380-388).                            *)
(***************************************************************************)
advances(backend, kind) ==
    CASE backend = "calc" -> FALSE
      [] backend = "gemini" -> kind = "raise"
      [] backend = "slm" -> response_rejected(kind)
      [] OTHER -> FALSE

NextInChain(model_type, backend) ==
    LET chain == FallbackChain(model_type)
        at == { k \in 1..Len(chain) : chain[k] = backend }
    IN  IF at = {} THEN "none"
        ELSE LET i == CHOOSE k \in at : TRUE
             IN  IF i < Len(chain) THEN chain[i + 1] ELSE "none"

(***************************************************************************)
(* A backend handed back `kind`: the router returns it or moves on.        *)
(* _get_contextual_fallback (:403-405) answers from the context without    *)
(* calling anything when the context is usable.                            *)
(***************************************************************************)
Return(backend, kind) ==
    LET next == NextInChain(modelType, backend)
        entry == [backend |-> backend, kind |-> kind]
    IN  IF advances(backend, kind) /\ next # "none"
        THEN IF next = "fallback" /\ call.context_usable
             THEN /\ history' = history \o
                                  <<entry, [backend |-> "fallback", kind |-> "ok"]>>
                  /\ Deliver("fallback", "ok")
             ELSE /\ history' = Append(history, entry)
                  /\ cur' = next
                  /\ pc' = "call"
                  /\ UNCHANGED <<response, source, chatVars>>
        ELSE /\ history' = Append(history, entry)
             /\ Deliver(backend, kind)

(***************************************************************************)
(* model_router.py:204-232: _generate_with_calculation_engine returns.     *)
(***************************************************************************)
calculation_return ==
    /\ pc = "wait" /\ cur = "calc"
    /\ \E kind \in CalcOutcomes : Return("calc", kind)
    /\ inflight' = inflight \ {"calc"}
    /\ UNCHANGED <<geminiAvailable, privacyVars, rerankVars, engineVars, routeVars, svcVars, caller,
                   call, modelType>>

(***************************************************************************)
(* model_router.py:246-288: gemini_engine.generate returns or raises.      *)
(***************************************************************************)
gemini_return ==
    /\ pc = "wait" /\ cur = "gemini"
    /\ \E api \in GeminiApiOutcomes :
          Return("gemini", gemini_generate(geminiAvailable, api))
    /\ inflight' = inflight \ {"gemini"}
    /\ UNCHANGED <<geminiAvailable, privacyVars, rerankVars, engineVars, routeVars, svcVars, caller,
                   call, modelType>>

(***************************************************************************)
(* model_router.py:380-388: inference_engine.generate returns or raises.   *)
(***************************************************************************)
slm_return ==
    /\ pc = "wait" /\ cur = "slm"
    /\ \E kind \in SlmOutcomes : Return("slm", kind)
    /\ inflight' = inflight \ {"slm"}
    /\ UNCHANGED <<geminiAvailable, privacyVars, rerankVars, engineVars, routeVars, svcVars, caller,
                   call, modelType>>

(***************************************************************************)
(* model_router.py:408-416: inside _get_contextual_fallback the engine     *)
(* answered the fallback prompt; its text is returned if accepted, else    *)
(* the fixed final text.                                                   *)
(***************************************************************************)
fallback_return ==
    /\ pc = "wait" /\ cur = "fallback"
    /\ \E kind \in SlmOutcomes :
          /\ history' = history \o
                 (IF response_rejected(kind)
                  THEN <<[backend |-> "fallback_prompt", kind |-> kind],
                         [backend |-> "fallback", kind |-> "ok"]>>
                  ELSE <<[backend |-> "fallback", kind |-> kind]>>)
          /\ Deliver("fallback", IF response_rejected(kind) THEN "ok" ELSE kind)
    /\ inflight' = inflight \ {"fallback"}
    /\ UNCHANGED <<geminiAvailable, privacyVars, rerankVars, engineVars, routeVars, svcVars, caller,
                   call, modelType>>

IdleRoute == rq = CHOOSE r \in RouteInputs : TRUE

Init ==
    /\ OtherIdle
    /\ geminiAvailable \in BOOLEAN
    /\ IdleRoute
    /\ routed = NotRouted
    /\ ExecIdle
    /\ ServiceOff

Next ==
    \/ generate_response
    \/ generate_legal_response
    \/ backend_call
    \/ calculation_return
    \/ gemini_return
    \/ slm_return
    \/ fallback_return

Spec == Init /\ [][Next]_vars


(***************************************************************************)
(* model_manager.py: ModelType and SensitivityLevel of the model manager.  *)
(***************************************************************************)
PHI3 == "phi3"
MISTRAL == "mistral"
GEMINI == "gemini"
ManagerModels == {PHI3, MISTRAL, GEMINI}
LocalModels == {PHI3, MISTRAL}

(***************************************************************************)
(* The queries handle_query is given, as what classify_sensitivity reads:  *)
(*   high_keyword   : a high_sensitivity_keywords entry occurs in the text *)
(*   medium_keyword : 'compliance', 'regulation' or 'license' occurs       *)
(*   long           : the text has more than 20 words (the queries drawn   *)
(*                    are short; the prompt built around them is long)     *)
(*   form           : the spelling of the text: "plain", or "recased" for  *)
(*                    the same words in another letter case and spacing    *)
(* Two queries with the same features stand for the same text.             *)
(***************************************************************************)
ServiceQueries ==
    [high_keyword : BOOLEAN, medium_keyword : BOOLEAN, long : {FALSE},
     form : {"plain"}]

(***************************************************************************)
(* model_manager.py: PrivacyAwareModelManager.classify_sensitivity.        *)
(***************************************************************************)
classify_sensitivity(q) ==
    IF q.high_keyword THEN "high"
    ELSE IF q.long \/ q.medium_keyword THEN "medium"
    ELSE "low"

(***************************************************************************)
(* model_manager.py: PrivacyAwareModelManager.route_query; "RuntimeError"  *)
(* stands for raise RuntimeError("No models available").                   *)
(***************************************************************************)
manager_route_query(sensitivity, loaded) ==
    IF sensitivity = "high"
    THEN IF PHI3 \in loaded THEN PHI3
         ELSE IF MISTRAL \in loaded THEN MISTRAL
         ELSE GEMINI
    ELSE IF sensitivity = "medium"
    THEN IF MISTRAL \in loaded THEN MISTRAL
         ELSE IF PHI3 \in loaded THEN PHI3
         ELSE GEMINI
    ELSE IF MISTRAL \in loaded THEN MISTRAL
         ELSE IF GEMINI \in loaded THEN GEMINI
         ELSE IF PHI3 \in loaded THEN PHI3
         ELSE "RuntimeError"

(***************************************************************************)
(* legal_service.py: _build_legal_prompt wraps the query and the context   *)
(* in a fixed text of more than 20 words that holds none of the            *)
(* high-sensitivity keywords; generate classifies that prompt.             *)
(***************************************************************************)
build_legal_prompt(q, context_high_keyword) ==
    [high_keyword |-> q.high_keyword \/ context_high_keyword,
     medium_keyword |-> q.medium_keyword,
     long |-> TRUE,
     form |-> q.form]

(***************************************************************************)
(* model_manager.py:202-208: after a failed call generate falls back to    *)
(* Gemini when the failed model is not Gemini and Gemini is loaded.        *)
(***************************************************************************)
generate_falls_back_to_gemini(failed, loaded) ==
    failed # GEMINI /\ GEMINI \in loaded

(***************************************************************************)
(* What a model call of the manager ends in: a text, an empty text, or an  *)
(* exception.                                                              *)
(***************************************************************************)
ManagerOutcomes == {"ok", "empty", "raise"}

(***************************************************************************)
(* The retriever handle_query holds (get_hybrid_retriever): retrieve(query,*)
(* top_k) hands back a list of documents, empty when nothing is found.     *)
(***************************************************************************)
ServiceRetrieveOutcomes == {"documents", "no_documents"}

\* a variant of query_hash taken of the lower-cased, whitespace-collapsed text
query_hash_normalized(query, session_id) ==
    [md5 |-> [query EXCEPT !.form = "plain"]]

\* a variant of query_hash that is scoped to the session
query_hash_session_scoped(query, session_id) ==
    [md5 |-> query, session |-> session_id]

(***************************************************************************)
(* legal_service.py:40: query_hash = md5(query.encode()).hexdigest(); the  *)
(* digest is taken of the query as given and stands for exactly that text. *)
(* handle_query's session_id takes no part in it.                          *)
(***************************************************************************)
query_hash(query, session_id) == [md5 |-> query]

(***************************************************************************)
(* json.dumps / json.loads on a result; None (NoResult) becomes "null" and *)
(* comes back as None.                                                     *)
(***************************************************************************)
json_dumps(value) == [json |-> value]
json_loads(string) == string.json

(***************************************************************************)
(* The Redis server: SETEX key ttl value stores the value with an expiry   *)
(* ttl seconds ahead; GET finds a key until its expiry.                    *)
(***************************************************************************)
QueryCacheTtl == 3600     \* ttl=3600 (legal_service.py:80, redis_manager.py:122)
TickSeconds == 3600       \* seconds the clock advances in one step
MaxTicks == 1             \* steps of the clock

\* a variant of setex that overwrites a stored value piece by piece, so
\* that an entry written over holds a partly written value
setex_piecewise(store, key, ttl, value, at) ==
    [k \in DOMAIN store \cup {key} |->
        IF k = key
        THEN [value |-> IF key \in DOMAIN store
                        THEN [json |-> [value.json EXCEPT !.kind = "partial"]]
                        ELSE value,
              expires |-> at + ttl]
        ELSE store[k]]

setex(store, key, ttl, value, at) ==
    [k \in DOMAIN store \cup {key} |->
        IF k = key THEN [value |-> value, expires |-> at + ttl] ELSE store[k]]

found_by_get(store, key, at) ==
    key \in DOMAIN store /\ at < store[key].expires

\* a variant of get_cached_query_result that never finds an entry
get_cached_query_result_never_hits(hash, redis_ok) == NoResult

(***************************************************************************)
(* redis_manager.py:136-147: get_cached_query_result; NoResult stands for  *)
(* None.  redis_ok is whether the Redis call went through (no exception).  *)
(***************************************************************************)
get_cached_query_result(hash, redis_ok) ==
    IF ~redisConnected THEN NoResult
    ELSE IF ~redis_ok THEN NoResult
    ELSE IF found_by_get(cache, hash, now) THEN json_loads(cache[hash].value)
    ELSE NoResult

\* a variant of cache_query_result that stores the value without an expiry
cache_query_result_no_expiry(hash, result, ttl, redis_ok) ==
    IF redisConnected /\ redis_ok
    THEN setex(cache, hash, ttl + (MaxTicks + 1) * TickSeconds,
               json_dumps(result), now)
    ELSE cache

(***************************************************************************)
(* redis_manager.py:118-134: cache_query_result, as the store it leaves    *)
(* and the flag it returns.                                                *)
(***************************************************************************)
cache_query_result(hash, result, ttl, redis_ok) ==
    IF redisConnected /\ redis_ok
    THEN setex(cache, hash, ttl, json_dumps(result), now)
    ELSE cache

cache_query_result_returns(redis_ok) == redisConnected /\ redis_ok

ErrorResult == [kind |-> "error", answer |-> "apology", cached |-> FALSE]

\* a variant of handle_query_caches that caches whatever is returned
handle_query_caches_always(result) == TRUE

(***************************************************************************)
(* legal_service.py:80 against :84-90: cache_query_result is called on the *)
(* path that built a result from the model's text; the except branch       *)
(* returns its apology without calling it.                                 *)
(***************************************************************************)
handle_query_caches(result) == result.kind = "answer"

JudgmentError == [kind |-> "error", answer |-> "absent", cached |-> FALSE]

MaxRequests == 2      \* handle_query requests in one run
Sessions == {"A", "B"}
ServiceSessions == {"A"}

(***************************************************************************)
(* What is kept of a finished handle_query request: the query and session, *)
(* when it came in and when it returned, the result, whether the retriever *)
(* was called, how many model calls were made, whether the cache lookup    *)
(* went through and whether the result was stored in the cache.            *)
(***************************************************************************)
Finished(query, req, result, calls, stored) ==
    [query |-> query, session |-> req.session, start |-> req.start,
     at |-> now, result |-> result, retrieved |-> req.retrieved,
     calls |-> calls, lookup_ok |-> req.lookup_ok, stored |-> stored]

(***************************************************************************)
(* legal_service.py: LegalService.handle_query up to the model call:       *)
(* cache lookup (:40-46), retrieval and prompt (:49-55), and generate's    *)
(* choice of the model (model_manager.py:167-175).                         *)
(***************************************************************************)
handle_query_of(queries, sessions) ==
    /\ svc_pc = "idle"
    /\ Len(svc_log) < MaxRequests
    /\ \E q \in queries, session_id \in sessions,
          found \in ServiceRetrieveOutcomes,
          context_high_keyword \in BOOLEAN, redis_ok \in BOOLEAN :
          LET cached_result ==
                  get_cached_query_result(query_hash(q, session_id), redis_ok)
              prompt == build_legal_prompt(
                            q, found = "documents" /\ context_high_keyword)
              model_type == manager_route_query(classify_sensitivity(prompt), models)
              req == [session |-> session_id, start |-> now,
                      lookup_ok |-> (redisConnected /\ redis_ok),
                      retrieved |-> (cached_result = NoResult)]
          IN  /\ svc_query' = q
              /\ svc_op' = "handle_query"
              /\ svc_invoked' = <<>>
              /\ svc_req' = req
              /\ IF cached_result # NoResult
                 THEN /\ svc_result' = [cached_result EXCEPT !.cached = TRUE]
                      /\ svc_pc' = "done"
                      /\ svc_model' = "none"
                      /\ svc_log' = Append(svc_log,
                             Finished(q, req,
                                      [cached_result EXCEPT !.cached = TRUE],
                                      0, FALSE))
                 ELSE IF model_type \notin models
                 THEN /\ svc_result' = ErrorResult
                      /\ svc_pc' = "done"
                      /\ svc_model' = "none"
                      /\ svc_log' = Append(svc_log,
                             Finished(q, req, ErrorResult, 0, FALSE))
                 ELSE /\ svc_result' = NoResult
                      /\ svc_pc' = "call"
                      /\ svc_model' = model_type
                      /\ UNCHANGED svc_log
    /\ UNCHANGED <<geminiAvailable, otherVars, routeVars, execVars, models,
                   redisConnected, now, redis_ops,
                   cache, svc_inflight>>

handle_query == handle_query_of(ServiceQueries, ServiceSessions)

(***************************************************************************)
(* legal_service.py: LegalService.predict_judgment up to the model call:   *)
(* the case description goes into a fixed prompt of more than 20 words     *)
(* and generate chooses the model for it.                                  *)
(***************************************************************************)
predict_judgment ==
    /\ svc_pc = "idle"
    /\ \E q \in ServiceQueries :
          LET prompt == build_legal_prompt(q, FALSE)
              model_type == manager_route_query(classify_sensitivity(prompt), models)
          IN  /\ svc_query' = q
              /\ svc_op' = "predict_judgment"
              /\ svc_invoked' = <<>>
              /\ IF model_type \notin models
                 THEN /\ svc_result' = JudgmentError
                      /\ svc_pc' = "done"
                      /\ svc_model' = "none"
                 ELSE /\ svc_result' = NoResult
                      /\ svc_pc' = "call"
                      /\ svc_model' = model_type
    /\ UNCHANGED <<geminiAvailable, otherVars, routeVars, execVars, models,
                   redisConnected, now, redis_ops,
                   cache, svc_inflight, svc_req, svc_log>>

(***************************************************************************)
(* model_manager.py:181-200: the call of the chosen model starts.          *)
(***************************************************************************)
manager_model_call ==
    /\ svc_pc = "call"
    /\ svc_inflight' = svc_inflight \cup {svc_model}
    /\ svc_pc' = "wait"
    /\ UNCHANGED <<geminiAvailable, otherVars, routeVars, execVars, models,
                   redisConnected, now, redis_ops,
                   cache, svc_op, svc_query, svc_model, svc_invoked, svc_result,
                   svc_req, svc_log>>

(***************************************************************************)
(* model_manager.py:191/200 and :202-208, then legal_service.py:61-90:     *)
(* the text of the model is the answer, which is cached and returned; an   *)
(* exception falls back to Gemini or ends in the error result.             *)
(***************************************************************************)
manager_model_return ==
    /\ svc_pc = "wait"
    /\ \E outcome \in ManagerOutcomes, redis_ok \in BOOLEAN :
          LET calls == Len(svc_invoked) + 1
              result == [kind |-> "answer", answer |-> outcome, cached |-> FALSE]
          IN
          /\ svc_invoked' = Append(svc_invoked,
                                   [model |-> svc_model, outcome |-> outcome])
          /\ IF outcome = "raise"
             THEN IF generate_falls_back_to_gemini(svc_model, models)
                  THEN /\ svc_model' = GEMINI
                       /\ svc_pc' = "call"
                       /\ UNCHANGED <<svc_result, cache, svc_log>>
                  ELSE LET caches == svc_op = "handle_query"
                                      /\ handle_query_caches(ErrorResult)
                       IN
                       /\ svc_model' = "none"
                       /\ svc_pc' = "done"
                       /\ svc_result' = (IF svc_op = "handle_query"
                                         THEN ErrorResult ELSE JudgmentError)
                       /\ cache' = (IF caches
                                    THEN cache_query_result(
                                             query_hash(svc_query, svc_req.session),
                                             ErrorResult, QueryCacheTtl, redis_ok)
                                    ELSE cache)
                       /\ svc_log' = (IF svc_op = "handle_query"
                                      THEN Append(svc_log,
                                               Finished(svc_query, svc_req,
                                                   ErrorResult, calls,
                                                   caches /\ cache_query_result_returns(redis_ok)))
                                      ELSE svc_log)
             ELSE /\ svc_model' = "none"
                  /\ svc_pc' = "done"
                  /\ svc_result' = result
                  /\ cache' = (IF svc_op = "handle_query"
                               THEN cache_query_result(
                                        query_hash(svc_query, svc_req.session),
                                        result, QueryCacheTtl, redis_ok)
                               ELSE cache)
                  /\ svc_log' = (IF svc_op = "handle_query"
                                 THEN Append(svc_log,
                                          Finished(svc_query, svc_req, result, calls,
                                              cache_query_result_returns(redis_ok)))
                                 ELSE svc_log)
    /\ svc_inflight' = svc_inflight \ {svc_model}
    /\ UNCHANGED <<geminiAvailable, otherVars, routeVars, execVars, models,
                   redisConnected, now, redis_ops,
                   svc_op, svc_query, svc_req>>

(***************************************************************************)
(* The service is ready for its next request.                              *)
(***************************************************************************)
next_request ==
    /\ svc_pc = "done"
    /\ svc_pc' = "idle"
    /\ svc_op' = "none"
    /\ svc_query' = NoQuery
    /\ svc_invoked' = <<>>
    /\ svc_result' = NoResult
    /\ svc_req' = NoReq
    /\ UNCHANGED <<geminiAvailable, otherVars, routeVars, execVars, models,
                   redisConnected, now, redis_ops,
                   cache, svc_model, svc_inflight, svc_log>>

InitService ==
    /\ OtherIdle
    /\ geminiAvailable = FALSE
    /\ IdleRoute
    /\ routed = NotRouted
    /\ ExecIdle
    /\ models \in SUBSET ManagerModels
    /\ redisConnected \in BOOLEAN
    /\ cache = <<>>
    /\ now = 0
    /\ redis_ops = <<>>
    /\ ServiceIdle

NextService ==
    \/ handle_query
    \/ predict_judgment
    \/ manager_model_call
    \/ manager_model_return
    \/ next_request

SpecService == InitService /\ [][NextService]_vars


(***************************************************************************)
(* SpecRedis: cache_query_result and get_cached_query_result called        *)
(* directly, with the clock of the Redis server advancing in between.      *)
(***************************************************************************)
MaxOps == 3           \* cache calls in one run

RedisKeys == { query_hash(q, "none") : q \in { x \in ServiceQueries : ~x.medium_keyword } }
RedisValues == {[kind |-> "answer", answer |-> "ok", cached |-> FALSE], NoResult}
RedisTtls == {QueryCacheTtl, 2 * QueryCacheTtl}

InitRedis ==
    /\ geminiAvailable = FALSE
    /\ OtherIdle
    /\ IdleRoute
    /\ routed = NotRouted
    /\ ExecIdle
    /\ models = {}
    /\ redisConnected \in BOOLEAN
    /\ cache = <<>>
    /\ now = 0
    /\ redis_ops = <<>>
    /\ ServiceIdle

CacheQueryResult ==
    /\ Len(redis_ops) < MaxOps
    /\ \E hash \in RedisKeys, value \in RedisValues, ttl \in RedisTtls,
          redis_ok \in BOOLEAN :
          /\ cache' = cache_query_result(hash, value, ttl, redis_ok)
          /\ redis_ops' = Append(redis_ops,
                 [op |-> "put", key |-> hash, value |-> value, ttl |-> ttl,
                  at |-> now, returned |-> cache_query_result_returns(redis_ok)])
    /\ UNCHANGED <<geminiAvailable, otherVars, routeVars, execVars, models,
                   redisConnected, now, svc_pc, svc_op, svc_query, svc_model,
                   svc_inflight, svc_invoked, svc_result,
                   svc_req, svc_log>>

GetCachedQueryResult ==
    /\ Len(redis_ops) < MaxOps
    /\ \E hash \in RedisKeys, redis_ok \in BOOLEAN :
          redis_ops' = Append(redis_ops,
                 [op |-> "get", key |-> hash,
                  value |-> get_cached_query_result(hash, redis_ok), ttl |-> 0,
                  at |-> now, returned |-> (redisConnected /\ redis_ok)])
    /\ UNCHANGED <<geminiAvailable, otherVars, routeVars, execVars, models,
                   redisConnected, cache, now, svc_pc, svc_op, svc_query,
                   svc_model, svc_inflight, svc_invoked, svc_result,
                   svc_req, svc_log>>

(***************************************************************************)
(* Time passes on the Redis server, between two requests: handling one     *)
(* request is short against the ttl of an entry.                           *)
(***************************************************************************)
Tick ==
    /\ svc_pc = "idle"
    /\ now < MaxTicks * TickSeconds
    /\ now' = now + TickSeconds
    /\ UNCHANGED <<geminiAvailable, otherVars, routeVars, execVars, models,
                   redisConnected, cache, redis_ops, svc_pc, svc_op, svc_query,
                   svc_model, svc_inflight, svc_invoked, svc_result,
                   svc_req, svc_log>>

NextRedis ==
    \/ CacheQueryResult
    \/ GetCachedQueryResult
    \/ Tick

SpecRedis == InitRedis /\ [][NextRedis]_vars

(***************************************************************************)
(* SpecCache: handle_query called repeatedly, by two sessions, with one    *)
(* highly sensitive text in two spellings, while the clock of the Redis    *)
(* server advances.  Phi-3 is the one model loaded.                        *)
(***************************************************************************)
CacheQueries ==
    [high_keyword : {TRUE}, medium_keyword : {FALSE}, long : {FALSE},
     form : {"plain", "recased"}]

InitCache ==
    /\ geminiAvailable = FALSE
    /\ OtherIdle
    /\ IdleRoute
    /\ routed = NotRouted
    /\ ExecIdle
    /\ models = {PHI3}
    /\ redisConnected \in BOOLEAN
    /\ cache = <<>>
    /\ now = 0
    /\ redis_ops = <<>>
    /\ ServiceIdle

handle_cache_query == handle_query_of(CacheQueries, Sessions)

NextCache ==
    \/ handle_cache_query
    \/ manager_model_call
    \/ manager_model_return
    \/ next_request
    \/ Tick

SpecCache == InitCache /\ [][NextCache]_vars

(***************************************************************************)
(* SpecRerank: hybrid_retriever.py, HybridRetriever._combine_and_rerank,   *)
(* called directly on three candidate lists and through retrieve.          *)
(*                                                                         *)
(* A candidate is [id, score]; scores are whole numbers, and the weights   *)
(* 0.5, 0.3 and 0.2 are kept in tenths, so a combined score is ten times   *)
(* the one the code computes.                                              *)
(***************************************************************************)
MaxDocs == 2          \* documents in the index
MaxScore == 1         \* highest score a search hands back
MaxListLen == 2       \* longest candidate list
MaxLimit == 2         \* highest limit asked for

FaissWeight == 5      \* result["score"] * 0.5           (:121)
Bm25Weight == 3       \* result.get("bm25_score", 0) * 0.3 (:128)
MetadataWeight == 2   \* 0.2, fixed score for a metadata match (:135)
WeightScale == 10     \* 1.0 in tenths

DocIds == 1..MaxDocs
RerankSources == {"faiss", "bm25", "metadata"}

\* the lists a search can hand back: each document at most once
ResultLists(scores) ==
    UNION { { l \in [1..n -> [id : DocIds, score : scores]] :
                \A i, j \in 1..n : i < j => l[i].id # l[j].id } :
            n \in 0..MaxListLen }

RerankInputs ==
    [faiss_results : ResultLists(0..MaxScore),
     bm25_results : ResultLists(1..MaxScore),
     metadata_results : ResultLists({0}),
     limit : 0..MaxLimit]

ids_of(results) == [i \in 1..Len(results) |-> results[i].id]
id_set(results) == { results[i].id : i \in 1..Len(results) }
score_in(results, doc_id) ==
    LET at == { i \in 1..Len(results) : results[i].id = doc_id }
    IN  results[CHOOSE i \in at : TRUE].score

\* a variant of all_results_ids that lists a document once per source
all_results_ids_with_repeats(faiss_results, bm25_results, metadata_results) ==
    ids_of(faiss_results) \o ids_of(bm25_results) \o ids_of(metadata_results)

(***************************************************************************)
(* :114-135: the keys of the all_results dict in insertion order: the ids  *)
(* of the FAISS list, then the new ids of the BM25 list, then the new ids  *)
(* of the metadata list.                                                   *)
(***************************************************************************)
all_results_ids(faiss_results, bm25_results, metadata_results) ==
    LET new_in_bm25(doc_id) == doc_id \notin id_set(faiss_results)
        new_in_metadata(doc_id) ==
            doc_id \notin id_set(faiss_results) \cup id_set(bm25_results)
    IN  ids_of(faiss_results)
        \o SelectSeq(ids_of(bm25_results), new_in_bm25)
        \o SelectSeq(ids_of(metadata_results), new_in_metadata)

\* a variant of weighted that counts a metadata match in full
weighted_metadata_in_full(rerank_source, score) ==
    CASE rerank_source = "faiss" -> score * FaissWeight
      [] rerank_source = "bm25" -> score * Bm25Weight
      [] OTHER -> WeightScale

(***************************************************************************)
(* :121, :128, :135: what a source adds to the "scores" of a document.     *)
(***************************************************************************)
weighted(rerank_source, score) ==
    CASE rerank_source = "faiss" -> score * FaissWeight
      [] rerank_source = "bm25" -> score * Bm25Weight
      [] OTHER -> MetadataWeight

(***************************************************************************)
(* :117-135: all_results[doc_id]["scores"], a dict with one entry for each *)
(* source that lists the document.                                         *)
(***************************************************************************)
scores_of(doc_id, faiss_results, bm25_results, metadata_results) ==
    LET listed == [faiss |-> faiss_results, bm25 |-> bm25_results,
                   metadata |-> metadata_results]
    IN  [rerank_source \in { x \in RerankSources : doc_id \in id_set(listed[x]) } |->
            weighted(rerank_source, score_in(listed[rerank_source], doc_id))]

\* :141: sum(data["scores"].values())
RECURSIVE sum_values(_, _)
sum_values(scores, keys) ==
    IF keys = {} THEN 0
    ELSE LET k == CHOOSE x \in keys : TRUE
         IN  scores[k] + sum_values(scores, keys \ {k})

(***************************************************************************)
(* :138-148: combined_results before the sort, in dict order.              *)
(***************************************************************************)
combine(faiss_results, bm25_results, metadata_results) ==
    LET ids == all_results_ids(faiss_results, bm25_results, metadata_results)
    IN  [i \in 1..Len(ids) |->
            LET scores == scores_of(ids[i], faiss_results, bm25_results,
                                    metadata_results)
            IN  [id |-> ids[i],
                 score |-> sum_values(scores, DOMAIN scores),
                 scores |-> scores]]

\* a variant of insert_by_score that orders equal scores by ascending id
insert_by_score_then_id(sorted, x) ==
    LET ahead == { i \in 1..Len(sorted) :
                     \/ sorted[i].score > x.score
                     \/ sorted[i].score = x.score /\ sorted[i].id < x.id }
    IN  SubSeq(sorted, 1, Cardinality(ahead)) \o <<x>>
        \o SubSeq(sorted, Cardinality(ahead) + 1, Len(sorted))

(***************************************************************************)
(* :151: combined_results.sort(key=lambda x: x["score"], reverse=True).    *)
(* list.sort is stable, also with reverse=True: candidates with equal      *)
(* scores keep the order they had.  x goes behind every candidate whose    *)
(* score is at least its own.                                              *)
(***************************************************************************)
insert_by_score(sorted, x) ==
    LET ahead == { i \in 1..Len(sorted) : sorted[i].score >= x.score }
    IN  SubSeq(sorted, 1, Cardinality(ahead)) \o <<x>>
        \o SubSeq(sorted, Cardinality(ahead) + 1, Len(sorted))

RECURSIVE sort_by_score(_)
sort_by_score(results) ==
    IF results = <<>> THEN <<>>
    ELSE insert_by_score(sort_by_score(SubSeq(results, 1, Len(results) - 1)),
                         results[Len(results)])

\* :153: combined_results[:limit], for a limit of 0 or more
slice(results, limit) ==
    SubSeq(results, 1, IF limit < Len(results) THEN limit ELSE Len(results))

(***************************************************************************)
(* :109-153: _combine_and_rerank.                                          *)
(***************************************************************************)
combine_and_rerank(faiss_results, bm25_results, metadata_results, limit) ==
    slice(sort_by_score(combine(faiss_results, bm25_results, metadata_results)),
          limit)

(***************************************************************************)
(* What retrieve (:30-32) can pass on: faiss_store.search hands back at    *)
(* most limit * 2 documents by descending similarity, equal similarities   *)
(* by ascending index; _retrieve_with_bm25 at most limit * 2 documents by  *)
(* descending bm25_score; _retrieve_from_metadata never fills its result   *)
(* list (:99-104), so metadata_results is empty with or without filters.   *)
(***************************************************************************)
from_retrieve(in) ==
    /\ Len(in.faiss_results) <= in.limit * 2
    /\ Len(in.bm25_results) <= in.limit * 2
    /\ \A i, j \in 1..Len(in.faiss_results) :
          i < j => \/ in.faiss_results[i].score > in.faiss_results[j].score
                   \/ /\ in.faiss_results[i].score = in.faiss_results[j].score
                      /\ in.faiss_results[i].id < in.faiss_results[j].id
    /\ \A i, j \in 1..Len(in.bm25_results) :
          i < j => in.bm25_results[i].score >= in.bm25_results[j].score
    /\ in.metadata_results = <<>>

InitRerank ==
    /\ geminiAvailable = FALSE
    /\ IdleRoute
    /\ routed = NotRouted
    /\ ExecIdle
    /\ ServiceOff
    /\ PrivacyIdle
    /\ ChatIdle
    /\ EngineIdle
    /\ rerank_in \in RerankInputs
    /\ rerank_via = "none"
    /\ combined_results = <<>>

\* _combine_and_rerank called on the three lists
CombineAndRerank ==
    /\ rerank_via = "none"
    /\ rerank_via' = "_combine_and_rerank"
    /\ combined_results' = combine_and_rerank(rerank_in.faiss_results,
                               rerank_in.bm25_results,
                               rerank_in.metadata_results, rerank_in.limit)
    /\ UNCHANGED <<geminiAvailable, routeVars, execVars, svcVars, privacyVars,
                   chatVars, engineVars, rerank_in>>

\* :17-39: retrieve(query, limit, filters)
retrieve ==
    /\ rerank_via = "none"
    /\ from_retrieve(rerank_in)
    /\ rerank_via' = "retrieve"
    /\ combined_results' = combine_and_rerank(rerank_in.faiss_results,
                               rerank_in.bm25_results,
                               rerank_in.metadata_results, rerank_in.limit)
    /\ UNCHANGED <<geminiAvailable, routeVars, execVars, svcVars, privacyVars,
                   chatVars, engineVars, rerank_in>>

NextRerank ==
    \/ CombineAndRerank
    \/ retrieve

SpecRerank == InitRerank /\ [][NextRerank]_vars

(***************************************************************************)
(* SpecPrivacy: privacy_layer.py.  A text is a sequence of whitespace-     *)
(* separated tokens; each token stands for the strings that the patterns   *)
(* treat alike.  The placeholders anonymize_text writes are tokens too, so *)
(* a text may hold them before the first pass.                             *)
(***************************************************************************)
MaxTokens == 2        \* tokens per text
MaxPasses == 2        \* anonymize_text passes over one text

Placeholders ==
    {"[REDACTED_AADHAR]", "[REDACTED_PAN]", "[REDACTED_ACCOUNT]",
     "[REDACTED_EMAIL]", "[REDACTED_PHONE]"}

Tokens ==
    {"hello", "court", "COURT", "fir", "criminal",
     "pan", "bank", "ifsc", "salary", "confidential",
     "123456789012",          \* 12 digits
     "1234567890",            \* 10 digits
     "12345678901234567",     \* 17 digits
     "ABCDE1234F", "a@b.co", "123-456-7890"} \cup Placeholders

Texts == UNION { [1..n -> Tokens] : n \in 0..MaxTokens }

(***************************************************************************)
(* str.lower() on a token.                                                 *)
(***************************************************************************)
lower(token) ==
    CASE token = "COURT" -> "court"
      [] token = "ABCDE1234F" -> "abcde1234f"
      [] token = "[REDACTED_AADHAR]" -> "[redacted_aadhar]"
      [] token = "[REDACTED_PAN]" -> "[redacted_pan]"
      [] token = "[REDACTED_ACCOUNT]" -> "[redacted_account]"
      [] token = "[REDACTED_EMAIL]" -> "[redacted_email]"
      [] token = "[REDACTED_PHONE]" -> "[redacted_phone]"
      [] OTHER -> token

str_lower(txt) == [i \in DOMAIN txt |-> lower(txt[i])]

(***************************************************************************)
(* The regular expressions of privacy_layer.py, each as the tokens it      *)
(* matches.  The patterns are case-sensitive and anchored by \b, and "_"   *)
(* is a word character: no pattern matches inside a placeholder.           *)
(***************************************************************************)
PatternMatches(pattern) ==
    CASE pattern = "case_keyword" -> {"court"}        \* \b(case no|court|...)\b
      [] pattern = "case_filing" -> {"fir"}           \* \b(fir|complaint|petition)\b
      [] pattern = "criminal" -> {"criminal"}         \* \b(criminal|offense|...)\b
      [] pattern = "pid_keyword" -> {"pan"}           \* \b(aadhar|aadhaar|pan|...)\b
      [] pattern = "digits_12" -> {"123456789012"}    \* \b\d{12}\b
      [] pattern = "pan_number" -> {"ABCDE1234F"}     \* \b[A-Z]{5}\d{4}[A-Z]\b
      [] pattern = "fin_keyword" -> {"bank"}          \* \b(account|bank|...)\b
      [] pattern = "digits_10_16" -> {"1234567890", "123456789012"}  \* \b\d{10,16}\b
      [] pattern = "fin_code" -> {"ifsc"}             \* \b(ifsc|swift|bic)\b
      [] pattern = "biz_keyword" -> {"salary"}        \* \b(profit|...|salary)\b
      [] pattern = "biz_confidential" -> {"confidential"}
      [] pattern = "email" -> {"a@b.co"}
      [] pattern = "digits_10" -> {"1234567890"}      \* \b\d{10}\b
      [] pattern = "phone_dashed" -> {"123-456-7890"} \* \b\d{3}-\d{3}-\d{4}\b

re_search(pattern, txt) ==
    \E i \in DOMAIN txt : txt[i] \in PatternMatches(pattern)

highly_sensitive_patterns == <<"case_keyword", "case_filing", "criminal">>

sensitive_patterns ==
    <<"pid_keyword", "digits_12", "pan_number",
      "fin_keyword", "digits_10_16", "fin_code",
      "biz_keyword", "biz_confidential">>

highly_sensitive_match(txt) ==
    \E k \in DOMAIN highly_sensitive_patterns :
        re_search(highly_sensitive_patterns[k], txt)

sensitive_match(txt) ==
    \E k \in DOMAIN sensitive_patterns : re_search(sensitive_patterns[k], txt)

(***************************************************************************)
(* privacy_layer.py:47-72: the patterns are searched in query.lower().     *)
(***************************************************************************)
classify_query(query) ==
    LET query_lower == str_lower(query)
    IN  classify_query_sensitivity(highly_sensitive_match(query_lower),
                                   sensitive_match(query_lower))

(***************************************************************************)
(* privacy_layer.py:84-98: the six re.sub calls of anonymize_text, in      *)
(* their order, on the text as given.                                      *)
(***************************************************************************)
AnonymizeRules ==
    <<[pattern |-> "digits_12", repl |-> "[REDACTED_AADHAR]"],
      [pattern |-> "pan_number", repl |-> "[REDACTED_PAN]"],
      [pattern |-> "digits_10_16", repl |-> "[REDACTED_ACCOUNT]"],
      [pattern |-> "email", repl |-> "[REDACTED_EMAIL]"],
      [pattern |-> "digits_10", repl |-> "[REDACTED_PHONE]"],
      [pattern |-> "phone_dashed", repl |-> "[REDACTED_PHONE]"]>>

re_sub(rule, txt) ==
    [i \in DOMAIN txt |->
        IF txt[i] \in PatternMatches(rule.pattern) THEN rule.repl ELSE txt[i]]

RECURSIVE apply_rules(_, _)
apply_rules(txt, k) ==
    IF k > Len(AnonymizeRules) THEN txt
    ELSE apply_rules(re_sub(AnonymizeRules[k], txt), k + 1)

\* a variant of anonymize_text that returns after the first rule that
\* changed the text
RECURSIVE first_rule_only(_, _)
first_rule_only(txt, k) ==
    IF k > Len(AnonymizeRules) THEN txt
    ELSE IF re_sub(AnonymizeRules[k], txt) # txt
         THEN re_sub(AnonymizeRules[k], txt)
         ELSE first_rule_only(txt, k + 1)

anonymize_text_first_rule_only(txt) == first_rule_only(txt, 1)

anonymize_text(txt) == apply_rules(txt, 1)

InitPrivacy ==
    /\ geminiAvailable = FALSE
    /\ rq = CHOOSE r \in RouteInputs : TRUE
    /\ routed = NotRouted
    /\ ExecIdle
    /\ ServiceOff
    /\ RerankIdle
    /\ ChatIdle
    /\ EngineIdle
    /\ text \in Texts
    /\ classified = "none"
    /\ passes = <<>>

Classify ==
    /\ classified = "none"
    /\ classified' = classify_query(text)
    /\ UNCHANGED <<geminiAvailable, routeVars, execVars, svcVars, rerankVars, chatVars, engineVars,
                   text,
                   passes>>

Anonymize ==
    /\ Len(passes) < MaxPasses
    /\ passes' = Append(passes, anonymize_text(IF passes = <<>> THEN text
                                               ELSE passes[Len(passes)]))
    /\ UNCHANGED <<geminiAvailable, routeVars, execVars, svcVars, rerankVars, chatVars, engineVars,
                   text,
                   classified>>

NextPrivacy ==
    \/ Classify
    \/ Anonymize

SpecPrivacy == InitPrivacy /\ [][NextPrivacy]_vars

(***************************************************************************)
(* Properties of the routing decision (SpecRoute).                         *)
(***************************************************************************)
Routed == routed.model # "none"

\* C6 (as the code has it): a query flagged as a calculation is routed to
\* Gemini whenever Gemini is available, with the local engine and then the
\* rule-based text behind it; the calculation engine is the primary backend
\* only when Gemini is unavailable, and then nothing stands behind it.
C6_CalculationGoesToGeminiWhenAvailable ==
    (Routed /\ routed.is_calculation) =>
        /\ routed.model = (IF geminiAvailable THEN LLM ELSE CALC)
        /\ geminiAvailable =>
               FallbackChain(routed.model) = <<"gemini", "slm", "fallback">>
        /\ ~geminiAvailable => FallbackChain(routed.model) = <<"calc">>

C6_Witness ==
    /\ Routed /\ routed.is_calculation /\ geminiAvailable
    /\ rq.has_calc_keyword /\ rq.has_numbers
    /\ routed.model = LLM

\* C6 as stated: a calculation query always has the calculation engine as
\* its primary backend, whether or not Gemini is available.
C6_AsStated ==
    (Routed /\ routed.is_calculation) => routed.model = CALC

\* C7 as stated: the calculation detector fires only when the query has
\* both a numeric token and a financial/computational keyword.
C7_AsStated ==
    (Routed /\ routed.is_calculation) =>
        (rq.has_numbers /\ rq.has_calc_keyword)

\* C8: a query flagged as a calculation is routed to CALC or LLM and never
\* to SLM; a query not flagged is never routed to CALC.
C8_CalculationNeverSlm ==
    Routed =>
        /\ routed.is_calculation => routed.model \in {CALC, LLM}
        /\ ~routed.is_calculation => routed.model \in {SLM, LLM}

C8_Witness ==
    /\ Routed /\ routed.is_calculation /\ ~geminiAvailable
    /\ routed.model = CALC

\* C9: a non-calculation query whose complexity is above 0.7 (2100 on the
\* scaled score; the high-relevance rule needs a complexity below 0.5 and
\* cannot take it) is routed to Gemini when Gemini is available, the local
\* engine standing behind it, and to the local engine when it is not.
C9_ComplexGoesToGemini ==
    (Routed /\ ~routed.is_calculation /\ calculate_complexity(rq) > 2100) =>
        /\ routed.model = (IF geminiAvailable THEN LLM ELSE SLM)
        /\ geminiAvailable => FallbackChain(routed.model)[2] = "slm"

C9_Witness ==
    /\ Routed /\ ~routed.is_calculation /\ geminiAvailable
    /\ calculate_complexity(rq) > 2100
    /\ calculate_complexity(rq) <= 2400
    /\ routed.model = LLM

Last(seq) == seq[Len(seq)]
Started == modelType # "none"
Backends(seq) == { seq[k] : k \in 1..Len(seq) }
Handed == { history[k].backend : k \in 1..Len(history) }

C4_AsStated ==
    (pc = "done" /\ Started) =>
        ~(/\ response.kind \in FailureKinds
          /\ response.from # Last(FallbackChain(modelType))
          /\ Last(FallbackChain(modelType)) \notin Handed)

\* C5: at most one backend call is in flight, calls are made one after the
\* other, and no backend is called once an earlier one has handed back an
\* accepted answer.
C5_OneCallAtATime ==
    /\ Cardinality(inflight) <= 1
    /\ pc = "wait" => inflight = {cur}
    /\ pc # "wait" => inflight = {}
    /\ \A k \in 1..Len(history) :
           (history[k].backend # "fallback_prompt" /\ history[k].kind = "ok") =>
               (k = Len(history) /\ pc = "done")

C5_Witness ==
    /\ pc = "wait" /\ cur = "slm" /\ inflight = {"slm"}
    /\ history = <<[backend |-> "gemini", kind |-> "raise"]>>


(***************************************************************************)
(* Properties of LegalService.handle_query over the model manager          *)
(* (SpecService).                                                          *)
(***************************************************************************)
InvokedModels == { svc_invoked[k].model : k \in 1..Len(svc_invoked) }

\* C1 as stated: for a query of the highest sensitivity level the remote
\* Gemini backend is never chosen and never invoked.
C1_AsStated ==
    (svc_pc # "idle" /\ classify_sensitivity(svc_query) = "high") =>
        /\ svc_model # GEMINI
        /\ GEMINI \notin svc_inflight
        /\ GEMINI \notin InvokedModels

\* C3 as stated: whatever the backends do the caller gets a non-empty
\* answer, and when every model that was invoked has failed the answer is
\* the rule-based fallback's and is tagged FALLBACK.
C3_AsStated ==
    (svc_pc = "done" /\ svc_op = "handle_query") =>
        /\ svc_result.answer # "empty"
        /\ (/\ svc_invoked # <<>>
            /\ \A k \in 1..Len(svc_invoked) : svc_invoked[k].outcome # "ok") =>
               svc_result.kind = "fallback"


(***************************************************************************)
(* Properties of the privacy layer (SpecPrivacy).                          *)
(***************************************************************************)
\* a pattern applies to a text when it matches the text as written or
\* lower-cased
PatternApplies(pattern, txt) ==
    re_search(pattern, txt) \/ re_search(pattern, str_lower(txt))

HighlySensitiveText(txt) ==
    \E k \in DOMAIN highly_sensitive_patterns :
        PatternApplies(highly_sensitive_patterns[k], txt)

SensitiveText(txt) ==
    \E k \in DOMAIN sensitive_patterns :
        PatternApplies(sensitive_patterns[k], txt)

\* C11 as stated: a text matching a highly-sensitive pattern is classified
\* HIGHLY_SENSITIVE whatever else matches; SENSITIVE is returned only when
\* no highly-sensitive pattern matches and some sensitive pattern does;
\* PUBLIC only when no pattern of either group matches.
C11_AsStated ==
    classified # "none" =>
        /\ HighlySensitiveText(text) => classified = "HIGHLY_SENSITIVE"
        /\ classified = "SENSITIVE" =>
               (~HighlySensitiveText(text) /\ SensitiveText(text))
        /\ classified = "PUBLIC" =>
               (~HighlySensitiveText(text) /\ ~SensitiveText(text))

\* C12: anonymize_text is idempotent: a second pass leaves the result of
\* the first pass unchanged, and no rule matches anything the first pass
\* left or wrote.
C12_RedactionIdempotent ==
    Len(passes) >= 1 =>
        /\ \A k \in 1..Len(passes) : passes[k] = passes[1]
        /\ \A r \in DOMAIN AnonymizeRules :
               ~re_search(AnonymizeRules[r].pattern, passes[1])

C12_Witness ==
    /\ Len(passes) = 2
    /\ Len(text) = 2
    /\ text[1] = "123456789012" /\ text[2] = "a@b.co"
    /\ passes[1] = <<"[REDACTED_AADHAR]", "[REDACTED_EMAIL]">>
    /\ passes[2] = passes[1]


(***************************************************************************)
(* Properties of the query cache (SpecRedis).                              *)
(***************************************************************************)
\* the put that a get of the same key is answered from: the last put of
\* that key before the get that returned True
AnsweringPut(j) ==
    LET puts == { i \in 1..(j - 1) : /\ redis_ops[i].op = "put"
                                     /\ redis_ops[i].key = redis_ops[j].key
                                     /\ redis_ops[i].returned }
    IN  IF puts = {} THEN 0 ELSE CHOOSE i \in puts : \A k \in puts : k <= i

\* C13 (as the code has it): when the cache is connected and the Redis
\* calls go through, a get of k after put(k, v, ttl) returns v as long as
\* less than ttl seconds have passed (None when v is None), and a miss once
\* ttl seconds have passed with no put of k in between; when the cache is
\* not connected or a Redis call raises, put stores nothing and get misses.
C13_GetAfterPut ==
    \A j \in 1..Len(redis_ops) :
        redis_ops[j].op = "get" =>
            LET i == AnsweringPut(j)
            IN  IF redis_ops[j].returned /\ i > 0
                   /\ redis_ops[j].at < redis_ops[i].at + redis_ops[i].ttl
                THEN redis_ops[j].value = redis_ops[i].value
                ELSE redis_ops[j].value = NoResult

C13_Witness ==
    /\ Len(redis_ops) = 3
    /\ redis_ops[1].op = "put" /\ redis_ops[1].returned
    /\ redis_ops[1].value # NoResult /\ redis_ops[1].ttl = QueryCacheTtl
    /\ redis_ops[2].op = "get" /\ redis_ops[2].key = redis_ops[1].key
    /\ redis_ops[2].at = redis_ops[1].at
    /\ redis_ops[2].value = redis_ops[1].value
    /\ redis_ops[3].op = "get" /\ redis_ops[3].key = redis_ops[1].key
    /\ redis_ops[3].returned
    /\ redis_ops[3].at >= redis_ops[1].at + QueryCacheTtl
    /\ redis_ops[3].value = NoResult

\* C13 as stated: a get(k) right after put(k, v, ttl) returns v, for every
\* key, value and ttl.
C13_AsStated ==
    \A j \in 2..Len(redis_ops) :
        (/\ redis_ops[j].op = "get" /\ redis_ops[j - 1].op = "put"
         /\ redis_ops[j].key = redis_ops[j - 1].key
         /\ redis_ops[j].at = redis_ops[j - 1].at) =>
            /\ redis_ops[j].value = redis_ops[j - 1].value
            /\ redis_ops[j].value # NoResult


(***************************************************************************)
(* Properties of handle_query's use of the cache (SpecCache).              *)
(***************************************************************************)
\* the finished request whose stored result a later request of the same
\* text can be served from: the last one before it that stored its result
AnsweringRequest(j) ==
    LET stores == { i \in 1..(j - 1) : /\ svc_log[i].query = svc_log[j].query
                                       /\ svc_log[i].stored }
    IN  IF stores = {} THEN 0 ELSE CHOOSE i \in stores : \A k \in stores : k <= i

ServedFrom(j, i) ==
    /\ i > 0
    /\ svc_log[j].lookup_ok
    /\ svc_log[j].start < svc_log[i].at + QueryCacheTtl

\* C14 (as the code has it): when a call of handle_query stored its result
\* in the cache (the cache is connected, the call ended in an answer and
\* the Redis write went through) and the identical text is submitted again
\* less than 3600 seconds later with the cache lookup going through, the
\* second call is marked cached, returns the same answer text, and makes
\* no retrieval and no model call.
C14_SecondCallServedFromCache ==
    \A j \in 1..Len(svc_log) :
        LET i == AnsweringRequest(j)
        IN  ServedFrom(j, i) =>
                /\ svc_log[j].result.cached
                /\ svc_log[j].result.answer = svc_log[i].result.answer
                /\ ~svc_log[j].retrieved
                /\ svc_log[j].calls = 0

C14_Witness ==
    /\ Len(svc_log) = 2
    /\ svc_log[1].query = svc_log[2].query
    /\ svc_log[1].stored /\ svc_log[1].calls = 1 /\ svc_log[1].retrieved
    /\ svc_log[2].start < svc_log[1].at + QueryCacheTtl
    /\ svc_log[2].result.cached
    /\ svc_log[2].calls = 0

\* C14 as stated: whenever the identical query is submitted twice within
\* the TTL, the second call is served from the cache.
C14_AsStated ==
    \A i, j \in 1..Len(svc_log) :
        (/\ i < j
         /\ svc_log[i].query = svc_log[j].query
         /\ svc_log[j].start < svc_log[i].at + QueryCacheTtl) =>
            /\ svc_log[j].result.cached
            /\ svc_log[j].result.answer = svc_log[i].result.answer
            /\ ~svc_log[j].retrieved
            /\ svc_log[j].calls = 0

\* the text of a query lower-cased and whitespace-collapsed
normalized(q) == [q EXCEPT !.form = "plain"]

\* C15 (as the code has it): the cache key is the MD5 digest of the query
\* text exactly as submitted, so only identical texts share a cache entry:
\* a call is served from the cache only when the very same text was stored
\* before, and two texts that differ in letter case or whitespace have
\* different keys.
C15_KeyIsRawText ==
    /\ \A q1, q2 \in CacheQueries, s1, s2 \in Sessions :
          (query_hash(q1, s1) = query_hash(q2, s2)) <=> (q1 = q2)
    /\ \A j \in 1..Len(svc_log) :
          svc_log[j].result.cached =>
              \E i \in 1..(j - 1) :
                  /\ svc_log[i].query = svc_log[j].query
                  /\ svc_log[i].stored
                  /\ svc_log[i].result.answer = svc_log[j].result.answer

C15_Witness ==
    /\ Len(svc_log) = 2
    /\ svc_log[1].stored
    /\ svc_log[2].query # svc_log[1].query
    /\ normalized(svc_log[2].query) = normalized(svc_log[1].query)
    /\ svc_log[2].lookup_ok
    /\ svc_log[2].start < svc_log[1].at + QueryCacheTtl
    /\ ~svc_log[2].result.cached
    /\ svc_log[2].retrieved

\* C15 as stated: two queries that differ only in letter case or whitespace
\* map to the same cache entry, so the second is served what the first
\* stored.
C15_AsStated ==
    \A i, j \in 1..Len(svc_log) :
        (/\ i < j
         /\ normalized(svc_log[i].query) = normalized(svc_log[j].query)
         /\ svc_log[i].stored
         /\ svc_log[j].lookup_ok
         /\ svc_log[j].start < svc_log[i].at + QueryCacheTtl) =>
            svc_log[j].result.cached

\* C16: the cache lookup depends on the query text only: what a session
\* stored, a highly sensitive query included, is returned unchanged (but
\* for the cached mark) to another session that submits the same text
\* within the TTL.
C16_CacheSharedAcrossSessions ==
    /\ \A q \in CacheQueries, s1, s2 \in Sessions :
          query_hash(q, s1) = query_hash(q, s2)
    /\ \A j \in 1..Len(svc_log) :
          LET i == AnsweringRequest(j)
          IN  (ServedFrom(j, i) /\ svc_log[i].session # svc_log[j].session) =>
                  svc_log[j].result = [svc_log[i].result EXCEPT !.cached = TRUE]

C16_Witness ==
    /\ Len(svc_log) = 2
    /\ svc_log[1].session = "A" /\ svc_log[2].session = "B"
    /\ classify_sensitivity(svc_log[1].query) = "high"
    /\ svc_log[2].query = svc_log[1].query
    /\ svc_log[1].stored /\ ~svc_log[1].result.cached
    /\ svc_log[2].result = [svc_log[1].result EXCEPT !.cached = TRUE]


(***************************************************************************)
(* Properties of the reranker (SpecRerank).                                *)
(***************************************************************************)
Reranked == rerank_via # "none"

InputIds ==
    id_set(rerank_in.faiss_results) \cup id_set(rerank_in.bm25_results)
    \cup id_set(rerank_in.metadata_results)

\* the score a source list gives a document, 0 when it does not list it
component(results, doc_id) ==
    IF doc_id \in id_set(results) THEN score_in(results, doc_id) ELSE 0

\* the place of a document in the order of arrival: the FAISS list first,
\* then the BM25 list, then the metadata list
arrival(doc_id) ==
    LET order == ids_of(rerank_in.faiss_results) \o ids_of(rerank_in.bm25_results)
                 \o ids_of(rerank_in.metadata_results)
    IN  CHOOSE i \in 1..Len(order) :
            order[i] = doc_id /\ \A k \in 1..(i - 1) : order[k] # doc_id

\* C17: for all candidate lists and every limit (of 0 or more), the output
\* has at most limit entries, is sorted non-increasing by fused score, and
\* holds each document id of the inputs at most once.
C17_BoundedSortedUnique ==
    Reranked =>
        /\ Len(combined_results) <= rerank_in.limit
        /\ \A i, j \in 1..Len(combined_results) :
              i < j => /\ combined_results[i].score >= combined_results[j].score
                       /\ combined_results[i].id # combined_results[j].id
        /\ \A i \in 1..Len(combined_results) : combined_results[i].id \in InputIds

C17_Witness ==
    /\ Reranked
    /\ Cardinality(InputIds) > rerank_in.limit
    /\ Len(combined_results) = 1
    /\ Len(rerank_in.faiss_results) = 2
    /\ combined_results[1].id = rerank_in.faiss_results[2].id
    /\ combined_results[1].id \in id_set(rerank_in.bm25_results)

\* C18: every candidate in the output has fused score
\* w_v * vector_score + w_k * keyword_score + w_m * (1 if metadata match),
\* a component missing from a source counting as 0, with fixed weights
\* (0.5, 0.3, 0.2) that sum to 1.0.
C18_FusedScoreFormula ==
    /\ FaissWeight + Bm25Weight + MetadataWeight = WeightScale
    /\ Reranked =>
          \A i \in 1..Len(combined_results) :
              LET c == combined_results[i]
              IN  c.score =
                      FaissWeight * component(rerank_in.faiss_results, c.id)
                      + Bm25Weight * component(rerank_in.bm25_results, c.id)
                      + MetadataWeight *
                          (IF c.id \in id_set(rerank_in.metadata_results)
                           THEN 1 ELSE 0)

C18_Witness ==
    /\ Reranked
    /\ \E i \in 1..Len(combined_results) :
          LET c == combined_results[i]
          IN  /\ c.id \in id_set(rerank_in.faiss_results)
              /\ c.id \notin id_set(rerank_in.bm25_results)
              /\ c.id \in id_set(rerank_in.metadata_results)
              /\ c.score = FaissWeight * MaxScore + MetadataWeight

\* C19 (as the code has it): candidates with equal fused scores keep the
\* order in which they arrived (the FAISS list first, then the BM25 list,
\* then the metadata list), so the output order follows the arrival order
\* of the inputs and not the document ids.
C19_TiesKeepArrivalOrder ==
    Reranked =>
        \A i, j \in 1..Len(combined_results) :
            (i < j /\ combined_results[i].score = combined_results[j].score) =>
                arrival(combined_results[i].id) < arrival(combined_results[j].id)

C19_Witness ==
    /\ rerank_via = "retrieve"
    /\ Len(combined_results) >= 2
    /\ combined_results[1].score = combined_results[2].score
    /\ combined_results[1].id > combined_results[2].id

\* C19 as stated: candidates with equal fused scores are in ascending
\* order of document id.
C19_AsStated ==
    Reranked =>
        \A i, j \in 1..Len(combined_results) :
            (i < j /\ combined_results[i].score = combined_results[j].score) =>
                combined_results[i].id < combined_results[j].id

\* C20 as stated: a chat request whose retrieval brings no context still
\* issues a generation request.
C20_AsStated ==
    (pc = "done" /\ caller = "chat" /\ ~call.has_context) =>
        history # <<>>


(***************************************************************************)
(* Properties of the chat endpoint (Spec).                                 *)
(***************************************************************************)
ChatDone == pc = "done" /\ caller = "chat"

\* C21 as stated: an empty question is rejected with a validation error
\* before classification, retrieval or any backend is reached, and the
\* chat history is left as it was.
C21_AsStated ==
    (ChatDone /\ chat_msg.empty) =>
        /\ response.from = "validation_error"
        /\ call.sensitivity = "none"
        /\ chat_msg.retriever_given = "none"
        /\ chat_storage = <<>>

\* C22 as stated: a PUBLIC question that is no calculation is answered by
\* a model, with a source tag that names generation or retrieval.
C22_AsStated ==
    (ChatDone /\ ~chat_msg.empty /\ call.sensitivity = "PUBLIC"
     /\ ~call.is_calculation) =>
        /\ response.kind = "ok"
        /\ source \in {"LOCAL", "REMOTE", "RAG", "GEN"}

\* C27: for a query classified SENSITIVE or HIGHLY_SENSITIVE, the text
\* generate_legal_response hands to the retriever and to the model router
\* is the anonymized text, never the raw message.
C27_SensitiveTextIsAnonymized ==
    (caller = "chat" /\ call.sensitivity \in {"SENSITIVE", "HIGHLY_SENSITIVE"}) =>
        /\ chat_msg.retriever_given = "anonymized"
        /\ chat_msg.router_given \in {"none", "anonymized"}

C27_Witness ==
    /\ ChatDone
    /\ call.sensitivity = "HIGHLY_SENSITIVE"
    /\ chat_msg.retriever_given = "anonymized"


(***************************************************************************)
(* Properties of the relevance score (SpecRoute).                          *)
(***************************************************************************)
\* model_router.py:78: msme_relevance > 0.7 and complexity_score < 0.5
high_relevance_rule(r) ==
    calculate_msme_relevance(r) > 21 /\ calculate_complexity(r) < 1500

\* C28: with no stored business profile, or an empty user id (as the chat
\* endpoint has it), the relevance score is at most 0.6 (18 on the scaled
\* score), so the rule 'relevance > 0.7 and complexity < 0.5' never fires.
C28_NoProfileNeverHighRelevance ==
    (Routed /\ rq.user \in {"none", "noprofile"}) =>
        /\ calculate_msme_relevance(rq) <= 18
        /\ ~high_relevance_rule(rq)

C28_Witness ==
    /\ Routed /\ ~routed.is_calculation
    /\ rq.user = "none"
    /\ rq.msme_matches > 3
    /\ calculate_msme_relevance(rq) = 18
    /\ calculate_complexity(rq) < 1500


\* C29: handle_query writes to the cache only after retrieval and
\* generation have both succeeded; a request that ends in the error branch
\* stores nothing, so an error answer is never held in the cache and never
\* served as a cached answer.
C29_ErrorsNeverCached ==
    /\ \A j \in 1..Len(svc_log) :
          /\ svc_log[j].stored =>
                /\ svc_log[j].result.kind = "answer"
                /\ svc_log[j].retrieved
                /\ svc_log[j].calls >= 1
          /\ svc_log[j].result.cached => svc_log[j].result.kind = "answer"
    /\ \A k \in DOMAIN cache : json_loads(cache[k].value).kind = "answer"

C29_Witness ==
    /\ Len(svc_log) = 2
    /\ redisConnected
    /\ svc_log[1].result.kind = "error" /\ svc_log[1].calls = 1
    /\ svc_log[2].query = svc_log[1].query
    /\ svc_log[2].lookup_ok
    /\ ~svc_log[2].result.cached
    /\ svc_log[2].retrieved


\* C26 as stated: classification and redaction agree: every text that
\* anonymize_text would change is classified SENSITIVE or HIGHLY_SENSITIVE,
\* so no text with a redactable span is treated as PUBLIC.
C26_AsStated ==
    (classified # "none" /\ anonymize_text(text) # text) =>
        classified \in {"SENSITIVE", "HIGHLY_SENSITIVE"}


(***************************************************************************)
(* SpecRetrieve: HybridRetriever.retrieve (hybrid_retriever.py:17-39) as   *)
(* the calls it makes one after the other: _retrieve_from_faiss,           *)
(* _retrieve_with_bm25, _retrieve_from_metadata when filters are given,    *)
(* then _combine_and_rerank.  A source call returns a list or raises, and  *)
(* may take any length of time to do so; nothing in the retriever or in    *)
(* the stores it calls sets a timeout.                                     *)
(***************************************************************************)
SourceRaised == [raised |-> TRUE, results |-> <<>>]
SourceReturned(results) == [raised |-> FALSE, results |-> results]

only_faiss(results, limit) ==
    [faiss_results |-> results, bm25_results |-> <<>>,
     metadata_results |-> <<>>, limit |-> limit]

only_bm25(results, limit) ==
    [faiss_results |-> <<>>, bm25_results |-> results,
     metadata_results |-> <<>>, limit |-> limit]

\* faiss_store.search(query_embedding, limit * 2), or an exception
FaissOutcomes(limit) ==
    { SourceReturned(l) : l \in { x \in ResultLists(0..MaxScore) :
                                    from_retrieve(only_faiss(x, limit)) } }
    \cup {SourceRaised}

\* the scored documents of the keyword search, or an exception
Bm25Outcomes(limit) ==
    { SourceReturned(l) : l \in { x \in ResultLists(1..MaxScore) :
                                    from_retrieve(only_bm25(x, limit)) } }
    \cup {SourceRaised}

\* redis_store.search_by_metadata(filters, limit * 2): the ids of the
\* documents that match every filter, or an exception
MetadataOutcomes(matched) ==
    {[raised |-> FALSE, results |-> matched], [raised |-> TRUE, results |-> {}]}

\* :41-49: the search's list, [] when it raised
retrieve_from_faiss(outcome) ==
    IF outcome.raised THEN <<>> ELSE outcome.results

\* :51-87: the scored documents, [] when the search raised
retrieve_with_bm25(outcome) ==
    IF outcome.raised THEN <<>> ELSE outcome.results

\* :89-107: results stays [] whatever doc_ids holds (the loop body is pass)
retrieve_from_metadata(outcome) == <<>>

\* retrieve(query, limit, filters) is called
retrieve_call ==
    /\ retrieving.pc = "idle"
    /\ \E limit \in 0..MaxLimit, filters \in BOOLEAN, matched \in SUBSET DocIds :
          /\ ~filters => matched = {}
          /\ retrieving' = [NoRetrieve EXCEPT !.pc = "faiss", !.limit = limit,
                                              !.filters = filters,
                                              !.matched = matched]
    /\ UNCHANGED <<geminiAvailable, routeVars, execVars, svcVars, privacyVars,
                   rerankVars, chatVars, workflows, wf_call, workers>>

\* :30: _retrieve_from_faiss returns
faiss_returns ==
    /\ retrieving.pc = "faiss"
    /\ \E outcome \in FaissOutcomes(retrieving.limit) :
          retrieving' =
              [retrieving EXCEPT
                   !.pc = "bm25",
                   !.faiss_results = retrieve_from_faiss(outcome),
                   !.raised = IF outcome.raised THEN @ \cup {"faiss"} ELSE @]
    /\ UNCHANGED <<geminiAvailable, routeVars, execVars, svcVars, privacyVars,
                   rerankVars, chatVars, workflows, wf_call, workers>>

\* :31-32 and, without filters, :35-39
bm25_returns ==
    /\ retrieving.pc = "bm25"
    /\ \E outcome \in Bm25Outcomes(retrieving.limit) :
          LET bm25_results == retrieve_with_bm25(outcome)
          IN  retrieving' =
                  [retrieving EXCEPT
                       !.pc = IF retrieving.filters THEN "metadata" ELSE "done",
                       !.bm25_results = bm25_results,
                       !.raised = IF outcome.raised THEN @ \cup {"bm25"} ELSE @,
                       !.combined_results =
                           IF retrieving.filters THEN @
                           ELSE combine_and_rerank(retrieving.faiss_results,
                                    bm25_results, <<>>, retrieving.limit)]
    /\ UNCHANGED <<geminiAvailable, routeVars, execVars, svcVars, privacyVars,
                   rerankVars, chatVars, workflows, wf_call, workers>>

\* :32 with filters, then :35-39
metadata_returns ==
    /\ retrieving.pc = "metadata"
    /\ \E outcome \in MetadataOutcomes(retrieving.matched) :
          LET metadata_results == retrieve_from_metadata(outcome)
          IN  retrieving' =
                  [retrieving EXCEPT
                       !.pc = "done",
                       !.metadata_results = metadata_results,
                       !.raised = IF outcome.raised THEN @ \cup {"metadata"} ELSE @,
                       !.combined_results =
                           combine_and_rerank(retrieving.faiss_results,
                               retrieving.bm25_results, metadata_results,
                               retrieving.limit)]
    /\ UNCHANGED <<geminiAvailable, routeVars, execVars, svcVars, privacyVars,
                   rerankVars, chatVars, workflows, wf_call, workers>>

\* the source call under way has run longer than any time allowed for it;
\* retrieve goes on waiting for it
source_overdue ==
    /\ retrieving.pc \in RerankSources
    /\ retrieving.pc \notin retrieving.overdue
    /\ retrieving' = [retrieving EXCEPT !.overdue = @ \cup {retrieving.pc}]
    /\ UNCHANGED <<geminiAvailable, routeVars, execVars, svcVars, privacyVars,
                   rerankVars, chatVars, workflows, wf_call, workers>>

InitRetrieve ==
    /\ geminiAvailable = FALSE
    /\ rq = CHOOSE r \in RouteInputs : TRUE
    /\ routed = NotRouted
    /\ ExecIdle
    /\ ServiceOff
    /\ PrivacyIdle
    /\ RerankIdle
    /\ ChatIdle
    /\ EngineIdle

NextRetrieve ==
    \/ retrieve_call
    \/ faiss_returns
    \/ bm25_returns
    \/ metadata_returns
    \/ source_overdue

SpecRetrieve == InitRetrieve /\ [][NextRetrieve]_vars

\* what a source handed to _combine_and_rerank
handed_over(rerank_source) ==
    CASE rerank_source = "faiss" -> retrieving.faiss_results
      [] rerank_source = "bm25" -> retrieving.bm25_results
      [] rerank_source = "metadata" -> retrieving.metadata_results

\* C23 as stated: a retrieval source that fails or exceeds its timeout
\* contributes an empty candidate list and never blocks or aborts the
\* request: retrieve is not left waiting for it, and returns the fusion of
\* what the remaining sources handed back.
C23_AsStated ==
    \A rerank_source \in retrieving.raised \cup retrieving.overdue :
        /\ retrieving.pc # rerank_source
        /\ handed_over(rerank_source) = <<>>
        /\ retrieving.pc = "done" =>
               retrieving.combined_results =
                   combine_and_rerank(
                       IF rerank_source = "faiss" THEN <<>>
                       ELSE retrieving.faiss_results,
                       IF rerank_source = "bm25" THEN <<>>
                       ELSE retrieving.bm25_results,
                       IF rerank_source = "metadata" THEN <<>>
                       ELSE retrieving.metadata_results,
                       retrieving.limit)

\* C24 as stated: when metadata constraints are supplied, every returned
\* document that matches all of them carries the metadata component in its
\* fused score, and a document that does not match carries none.
C24_AsStated ==
    (retrieving.pc = "done" /\ retrieving.filters) =>
        \A i \in 1..Len(retrieving.combined_results) :
            LET c == retrieving.combined_results[i]
            IN  IF c.id \in retrieving.matched
                THEN /\ "metadata" \in DOMAIN c.scores
                     /\ c.scores["metadata"] = MetadataWeight
                ELSE "metadata" \notin DOMAIN c.scores

(***************************************************************************)
(* SpecConcurrent: handle_query (legal_service.py:34-90) called by several *)
(* requests at once with the same query text; app.py serves each request   *)
(* on a thread of its own and all share one LegalService.  A call runs in  *)
(* three steps: the cache lookup (:40-46), retrieval and generation        *)
(* (:49-77), and the cache write (:80); the steps of different calls       *)
(* interleave in any order.  The lookup is one GET and the write one       *)
(* SETEX on the Redis server, which runs its commands one at a time.       *)
(***************************************************************************)
MaxWorkers == 2       \* requests under way at once

WorkerIds == 1..MaxWorkers

ConcurrentQuery ==
    [high_keyword |-> TRUE, medium_keyword |-> FALSE, long |-> FALSE,
     form |-> "plain"]

ConcurrentKey == query_hash(ConcurrentQuery, "A")

\* a call about to make its lookup: where it stands, what the lookup
\* returned and how many cache writes had been made by then, and its result
NewWorker == [pc |-> "lookup", got |-> NoResult, got_after |-> 0,
              result |-> NoResult]

InitConcurrent ==
    /\ geminiAvailable = FALSE
    /\ IdleRoute
    /\ routed = NotRouted
    /\ ExecIdle
    /\ PrivacyIdle
    /\ RerankIdle
    /\ ChatIdle
    /\ workflows = <<>>
    /\ wf_call = NoWfCall
    /\ retrieving = NoRetrieve
    /\ models = {PHI3}
    /\ redisConnected \in BOOLEAN
    /\ cache = <<>>
    /\ now = 0
    /\ redis_ops = <<>>
    /\ ServiceIdle
    /\ workers = [w \in WorkerIds |-> NewWorker]

\* :40-46: the lookup, and the return of a cached result
worker_lookup ==
    \E w \in WorkerIds, redis_ok \in BOOLEAN :
        LET cached_result == get_cached_query_result(ConcurrentKey, redis_ok)
        IN
        /\ workers[w].pc = "lookup"
        /\ workers' =
               [workers EXCEPT
                    ![w] = [pc |-> IF cached_result # NoResult THEN "done"
                                   ELSE "compute",
                            got |-> cached_result,
                            got_after |-> Len(redis_ops),
                            result |-> IF cached_result # NoResult
                                       THEN [cached_result EXCEPT !.cached = TRUE]
                                       ELSE NoResult]]
        /\ UNCHANGED <<geminiAvailable, routeVars, execVars, svcVars, privacyVars,
                       rerankVars, chatVars, workflows, wf_call, retrieving>>

\* :49-77, and :84-90 when retrieval or generation raises
worker_compute ==
    \E w \in WorkerIds, outcome \in ManagerOutcomes :
        LET result == IF outcome = "raise" THEN ErrorResult
                      ELSE [kind |-> "answer", answer |-> outcome, cached |-> FALSE]
        IN
        /\ workers[w].pc = "compute"
        /\ workers' =
               [workers EXCEPT
                    ![w].pc = IF handle_query_caches(result) THEN "store"
                              ELSE "done",
                    ![w].result = result]
        /\ UNCHANGED <<geminiAvailable, routeVars, execVars, svcVars, privacyVars,
                       rerankVars, chatVars, workflows, wf_call, retrieving>>

\* :80-82: the cache write, and the return of the result
worker_store ==
    \E w \in WorkerIds, redis_ok \in BOOLEAN :
        /\ workers[w].pc = "store"
        /\ cache' = cache_query_result(ConcurrentKey, workers[w].result,
                                       QueryCacheTtl, redis_ok)
        /\ redis_ops' = Append(redis_ops,
               [op |-> "put", key |-> ConcurrentKey, value |-> workers[w].result,
                ttl |-> QueryCacheTtl, at |-> now,
                returned |-> cache_query_result_returns(redis_ok)])
        /\ workers' = [workers EXCEPT ![w].pc = "done"]
        /\ UNCHANGED <<geminiAvailable, routeVars, execVars, privacyVars,
                       rerankVars, chatVars, workflows, wf_call, retrieving,
                       models, redisConnected, now, svc_pc, svc_op, svc_query,
                       svc_model, svc_inflight, svc_invoked, svc_result,
                       svc_req, svc_log>>

NextConcurrent ==
    \/ worker_lookup
    \/ worker_compute
    \/ worker_store
    \/ Tick

SpecConcurrent == InitConcurrent /\ [][NextConcurrent]_vars

\* the cache writes among the first n that went through
PutsDone(n) == { j \in 1..n : redis_ops[j].returned }

\* j is the last cache write among the first n that went through
LastPut(j, n) == j \in PutsDone(n) /\ \A k \in PutsDone(n) : k <= j

\* C25: under any interleaving of concurrent handle_query calls for the
\* same query, a lookup returns a miss or the whole value of one earlier
\* cache write (the last one that went through), never a partial or mixed
\* value, and the entry holds the value of the last write that went
\* through: once all calls have finished, the value of one of their writes.
C25_GetsSeeWholePuts ==
    /\ \A w \in DOMAIN workers :
          workers[w].pc # "lookup" =>
              \/ workers[w].got = NoResult
              \/ \E j \in 1..workers[w].got_after :
                    /\ LastPut(j, workers[w].got_after)
                    /\ workers[w].got = redis_ops[j].value
    /\ workers # <<>> =>
          IF PutsDone(Len(redis_ops)) = {}
          THEN ConcurrentKey \notin DOMAIN cache
          ELSE /\ ConcurrentKey \in DOMAIN cache
               /\ \E j \in 1..Len(redis_ops) :
                     /\ LastPut(j, Len(redis_ops))
                     /\ json_loads(cache[ConcurrentKey].value) = redis_ops[j].value
                     /\ redis_ops[j].value \in
                            { workers[w].result : w \in DOMAIN workers }

\* a stampede: two calls miss, both compute, their writes carry different
\* answers, and a later look finds the second write's value
C25_Witness ==
    /\ \A w \in DOMAIN workers : workers[w].pc = "done"
    /\ Len(redis_ops) = 2
    /\ redis_ops[1].returned /\ redis_ops[2].returned
    /\ redis_ops[1].value # redis_ops[2].value
    /\ \E w1, w2 \in DOMAIN workers :
          /\ w1 # w2
          /\ workers[w1].got = NoResult /\ workers[w1].got_after = 0
          /\ workers[w2].got = NoResult /\ workers[w2].got_after = 0
    /\ json_loads(cache[ConcurrentKey].value) = redis_ops[2].value

(***************************************************************************)
(* SpecWorkflow: the workflow engine of msme/workflows/automation.py.  A   *)
(* workflow is kept as the status of each of its steps, current_step and   *)
(* completed_steps; the timestamps (started_at, completed_at, updated_at)  *)
(* and the texts of a step are left out.  Steps are numbered from 0, as    *)
(* the list indices of the code are.                                       *)
(***************************************************************************)
TemplateSteps == 4    \* every template has four steps (automation.py:54-78)

WorkflowTemplates == {"compliance_check", "contract_management", "employee_onboarding"}
TemplateNames == WorkflowTemplates \cup {"unknown_template"}

\* the ids uuid4 hands out, and an id no workflow was created under
WorkflowIds == {"w1"}
CallIds == WorkflowIds \cup {"w0"}

\* the step_index values of a call: from below -len(steps) up to len(steps)
StepIndexes == (0 - TemplateSteps - 1)..TemplateSteps

(***************************************************************************)
(* automation.py:8-18, 20-33: a workflow as create_workflow leaves it.     *)
(***************************************************************************)
Workflow(template_name) ==
    [template |-> template_name,
     steps |-> [i \in 0..(TemplateSteps - 1) |-> "pending"],
     current_step |-> 0,
     completed_steps |-> <<>>]

len_steps(workflow) == Cardinality(DOMAIN workflow.steps)

(***************************************************************************)
(* workflow.steps[step_index] of a Python list: an index from -len to -1   *)
(* counts from the end, anything else outside 0..len-1 raises IndexError.  *)
(***************************************************************************)
list_index_raises(length, index) == index >= length \/ index < 0 - length

list_index(length, index) == IF index >= 0 THEN index ELSE length + index

(***************************************************************************)
(* automation.py:140-185: create_workflow; an unknown template returns     *)
(* None and creates nothing.                                               *)
(***************************************************************************)
create_workflow ==
    \E template_name \in TemplateNames, workflow_id \in WorkflowIds :
        /\ workflow_id \notin DOMAIN workflows
        /\ IF template_name \notin WorkflowTemplates
           THEN /\ wf_call' = [op |-> "create_workflow", workflow_id |-> "none",
                               step_index |-> 0, returned |-> "None",
                               progress |-> NoProgress, before |-> workflows]
                /\ UNCHANGED workflows
           ELSE /\ workflows' = [w \in DOMAIN workflows \cup {workflow_id} |->
                                   IF w = workflow_id THEN Workflow(template_name)
                                   ELSE workflows[w]]
                /\ wf_call' = [op |-> "create_workflow", workflow_id |-> workflow_id,
                               step_index |-> 0, returned |-> workflow_id,
                               progress |-> NoProgress, before |-> workflows]
        /\ UNCHANGED <<geminiAvailable, routeVars, execVars, svcVars, privacyVars,
                       rerankVars, chatVars, workers, retrieving>>

(***************************************************************************)
(* automation.py:212-235: start_workflow_step.                             *)
(***************************************************************************)
start_workflow_step ==
    \E workflow_id \in CallIds, step_index \in StepIndexes :
        LET call_of(returned) ==
                [op |-> "start_workflow_step", workflow_id |-> workflow_id,
                 step_index |-> step_index, returned |-> returned,
                 progress |-> NoProgress, before |-> workflows]
        IN
        /\ IF workflow_id \notin DOMAIN workflows
           THEN wf_call' = call_of("False") /\ UNCHANGED workflows
           ELSE LET workflow == workflows[workflow_id]
                    at == list_index(len_steps(workflow), step_index)
                IN  IF step_index >= len_steps(workflow)
                    THEN wf_call' = call_of("False") /\ UNCHANGED workflows
                    ELSE IF list_index_raises(len_steps(workflow), step_index)
                    THEN wf_call' = call_of("IndexError") /\ UNCHANGED workflows
                    ELSE IF workflow.steps[at] # "pending"
                    THEN wf_call' = call_of("False") /\ UNCHANGED workflows
                    ELSE /\ workflows' =
                               [workflows EXCEPT
                                    ![workflow_id].steps[at] = "in_progress"]
                         /\ wf_call' = call_of("True")
        /\ UNCHANGED <<geminiAvailable, routeVars, execVars, svcVars, privacyVars,
                       rerankVars, chatVars, workers, retrieving>>

(***************************************************************************)
(* automation.py:237-265: complete_workflow_step; step_index itself is     *)
(* appended to completed_steps and, plus one, becomes current_step.        *)
(***************************************************************************)
complete_workflow_step ==
    \E workflow_id \in CallIds, step_index \in StepIndexes :
        LET call_of(returned) ==
                [op |-> "complete_workflow_step", workflow_id |-> workflow_id,
                 step_index |-> step_index, returned |-> returned,
                 progress |-> NoProgress, before |-> workflows]
        IN
        /\ IF workflow_id \notin DOMAIN workflows
           THEN wf_call' = call_of("False") /\ UNCHANGED workflows
           ELSE LET workflow == workflows[workflow_id]
                    at == list_index(len_steps(workflow), step_index)
                IN  IF step_index >= len_steps(workflow)
                    THEN wf_call' = call_of("False") /\ UNCHANGED workflows
                    ELSE IF list_index_raises(len_steps(workflow), step_index)
                    THEN wf_call' = call_of("IndexError") /\ UNCHANGED workflows
                    ELSE IF workflow.steps[at] # "in_progress"
                    THEN wf_call' = call_of("False") /\ UNCHANGED workflows
                    ELSE /\ workflows' =
                               [workflows EXCEPT
                                    ![workflow_id].steps[at] = "completed",
                                    ![workflow_id].completed_steps =
                                        Append(@, step_index),
                                    ![workflow_id].current_step =
                                        IF step_index + 1 < len_steps(workflow)
                                        THEN step_index + 1 ELSE @]
                         /\ wf_call' = call_of("True")
        /\ UNCHANGED <<geminiAvailable, routeVars, execVars, svcVars, privacyVars,
                       rerankVars, chatVars, workers, retrieving>>

(***************************************************************************)
(* automation.py:267-293: get_workflow_progress, {} for an unknown id.     *)
(***************************************************************************)
workflow_progress(workflow_id) ==
    IF workflow_id \notin DOMAIN workflows THEN NoProgress
    ELSE LET workflow == workflows[workflow_id]
             total_steps == len_steps(workflow)
             completed_steps == Len(workflow.completed_steps)
         IN  [found |-> TRUE, total_steps |-> total_steps,
              completed_steps |-> completed_steps,
              progress_percentage |->
                  IF total_steps > 0 THEN (completed_steps * 100) \div total_steps
                  ELSE 0,
              current_step |-> workflow.current_step]

get_workflow_progress ==
    \E workflow_id \in CallIds :
        /\ wf_call' = [op |-> "get_workflow_progress", workflow_id |-> workflow_id,
                       step_index |-> 0,
                       returned |-> "progress",
                       progress |-> workflow_progress(workflow_id),
                       before |-> workflows]
        /\ UNCHANGED <<geminiAvailable, routeVars, execVars, svcVars, privacyVars,
                       rerankVars, chatVars, workflows, workers, retrieving>>

InitWorkflow ==
    /\ geminiAvailable = FALSE
    /\ rq = CHOOSE r \in RouteInputs : TRUE
    /\ routed = NotRouted
    /\ ExecIdle
    /\ ServiceOff
    /\ PrivacyIdle
    /\ RerankIdle
    /\ ChatIdle
    /\ EngineIdle

NextWorkflow ==
    \/ create_workflow
    \/ start_workflow_step
    \/ complete_workflow_step
    \/ get_workflow_progress

SpecWorkflow == InitWorkflow /\ [][NextWorkflow]_vars

StepCall == wf_call.op \in {"start_workflow_step", "complete_workflow_step"}

\* the status a start or complete call needs its step to be in
needed_status(op) ==
    IF op = "start_workflow_step" THEN "pending" ELSE "in_progress"

StatusRank(status) ==
    CASE status = "pending" -> 0
      [] status = "in_progress" -> 1
      [] status = "completed" -> 2

\* C30 as stated: over start_workflow_step and complete_workflow_step calls
\* a step's status only moves pending -> in_progress -> completed, one
\* stage at a time, and a call on an unknown workflow, on an index outside
\* 0..len(steps)-1 or on a step in the wrong status returns False and
\* changes no step status, completed_steps or current_step.
C30_AsStated ==
    StepCall =>
        LET known == wf_call.workflow_id \in DOMAIN wf_call.before
            in_range == /\ known
                        /\ wf_call.step_index >= 0
                        /\ wf_call.step_index <
                               len_steps(wf_call.before[wf_call.workflow_id])
            right_status ==
                /\ in_range
                /\ wf_call.before[wf_call.workflow_id].steps[wf_call.step_index]
                       = needed_status(wf_call.op)
        IN  /\ ~right_status =>
                  (wf_call.returned = "False" /\ workflows = wf_call.before)
            /\ \A w \in DOMAIN wf_call.before :
                  \A i \in DOMAIN wf_call.before[w].steps :
                      LET was == StatusRank(wf_call.before[w].steps[i])
                          is == StatusRank(workflows[w].steps[i])
                      IN  is = was \/ is = was + 1

=============================================================================
